---- MODULE Spec2Model ----
(***************************************************************************)
(* A model of claude-persistent-context:                                   *)
(*   - scripts/update_context.py : the diff-audited update of the context  *)
(*     document (document store + changelog),                             *)
(*   - setup.py                  : the installation steps that write the   *)
(*     document store and initialise the changelog,                        *)
(*   - scripts/scanner.py        : the system scan.                        *)
(*                                                                         *)
(* Text is modelled as a sequence of tokens (lexemes): "{", "}", ":", ",", *)
(* quoted strings, numbers, one token per space and one per newline.  A    *)
(* file is a record [exists, text].                                        *)
(***************************************************************************)
EXTENDS Integers, Sequences, FiniteSets, TLC

(***************************************************************************)
(* Bounds of the model.                                                    *)
(***************************************************************************)
\* Number of invocations (update runs and setup runs) in one behaviour.
MaxRuns == 2

(***************************************************************************)
(* Program constants.                                                      *)
(***************************************************************************)
\* json.dumps(..., indent=2)
Indent == 2
\* difflib.unified_diff's default number of context lines (n=3)
ContextLines == 3

NL == "\n"
SP == " "
Whitespace == {SP, NL}

(***************************************************************************)
(* JSON values.  A value is an atom (a number or a string, kept as its     *)
(* lexeme) or an object: the sequence of its members in insertion order,   *)
(* as a Python dict keeps them.                                            *)
(***************************************************************************)
JAtom(t) == [kind |-> "atom", atom |-> t, items |-> <<>>]
JObj(items) == [kind |-> "obj", atom |-> "", items |-> items]
Member(k, v) == [k |-> k, v |-> v]
EmptyDict == JObj(<<>>)

\* The key strings of the model, in the order Python's sorted() puts them.
KeyOrder == <<"a", "b">>
Keys == {KeyOrder[i] : i \in 1..Len(KeyOrder)}
Quote(s) == "\"" \o s \o "\""
NumberTokens == {"1", "2"}
StringTokens == {Quote(k) : k \in Keys}
Unquote(tok) == CHOOSE k \in Keys : Quote(k) = tok

\* dict[k] = v : a key already present keeps its position and gets the new value.
Put(items, k, v) ==
    IF \E i \in 1..Len(items) : items[i].k = k
    THEN [i \in 1..Len(items) |-> IF items[i].k = k THEN Member(k, v) ELSE items[i]]
    ELSE Append(items, Member(k, v))

(***************************************************************************)
(* json.dumps(value, indent=2, sort_keys=sortKeys)                         *)
(***************************************************************************)
RECURSIVE SortFrom(_, _)
SortFrom(items, i) ==
    IF i > Len(KeyOrder) THEN <<>>
    ELSE SelectSeq(items, LAMBDA it : it.k = KeyOrder[i]) \o SortFrom(items, i + 1)

\* Mutant: the keys are left in insertion order.
SortItemsNone(items) == items

\* sorted(dct.items()) as the encoder does under sort_keys=True
SortItems(items) == SortFrom(items, 1)

NewlineIndent(level) == <<NL>> \o [i \in 1..(Indent * level) |-> SP]

RECURSIVE Encode(_, _, _)
RECURSIVE EncodeItems(_, _, _, _)
EncodeItems(items, i, sortKeys, level) ==
    IF i > Len(items) THEN <<>>
    ELSE (IF i > 1 THEN <<",">> ELSE <<>>)
         \o NewlineIndent(level)
         \o <<Quote(items[i].k), ":", SP>>
         \o Encode(items[i].v, sortKeys, level)
         \o EncodeItems(items, i + 1, sortKeys, level)

Encode(v, sortKeys, level) ==
    IF v.kind = "atom" THEN <<v.atom>>
    ELSE IF v.items = <<>> THEN <<"{", "}">>
    ELSE <<"{">>
         \o EncodeItems(IF sortKeys THEN SortItems(v.items) ELSE v.items,
                        1, sortKeys, level + 1)
         \o NewlineIndent(level)
         \o <<"}">>

Dumps(v, sortKeys) == Encode(v, sortKeys, 0)

(***************************************************************************)
(* json.loads(text)                                                        *)
(***************************************************************************)
RECURSIVE SkipWs(_)
SkipWs(t) == IF t # <<>> /\ Head(t) \in Whitespace THEN SkipWs(Tail(t)) ELSE t

ParseFail == [ok |-> FALSE, val |-> JAtom(""), rest |-> <<>>]
ParseOk(v, rest) == [ok |-> TRUE, val |-> v, rest |-> rest]

RECURSIVE ParseValue(_)
RECURSIVE ParseMembers(_, _)
ParseMembers(t, acc) ==
    LET s == SkipWs(t) IN
    IF s = <<>> \/ Head(s) \notin StringTokens THEN ParseFail
    ELSE LET k == Unquote(Head(s))
             c == SkipWs(Tail(s))
         IN IF c = <<>> \/ Head(c) # ":" THEN ParseFail
            ELSE LET pv == ParseValue(Tail(c)) IN
                 IF ~pv.ok THEN ParseFail
                 ELSE LET acc2 == Put(acc, k, pv.val)
                          e == SkipWs(pv.rest)
                      IN IF e = <<>> THEN ParseFail
                         ELSE IF Head(e) = "}" THEN ParseOk(JObj(acc2), Tail(e))
                         ELSE IF Head(e) = "," THEN ParseMembers(Tail(e), acc2)
                         ELSE ParseFail

ParseValue(t) ==
    LET s == SkipWs(t) IN
    IF s = <<>> THEN ParseFail
    ELSE IF Head(s) = "{"
         THEN LET r == SkipWs(Tail(s)) IN
              IF r # <<>> /\ Head(r) = "}" THEN ParseOk(EmptyDict, Tail(r))
              ELSE ParseMembers(r, <<>>)
    ELSE IF Head(s) \in NumberTokens \cup StringTokens
         THEN ParseOk(JAtom(Head(s)), Tail(s))
    ELSE ParseFail

\* json.loads: one value, then nothing but whitespace; otherwise JSONDecodeError.
Loads(text) ==
    LET p == ParseValue(text) IN
    IF p.ok /\ SkipWs(p.rest) = <<>> THEN [ok |-> TRUE, val |-> p.val]
    ELSE [ok |-> FALSE, val |-> JAtom("")]

(***************************************************************************)
(* str.strip() and str.splitlines(keepends=True)                           *)
(***************************************************************************)
Reverse(s) == [i \in 1..Len(s) |-> s[Len(s) + 1 - i]]
Strip(t) == Reverse(SkipWs(Reverse(SkipWs(t))))

RECURSIVE SplitFrom(_, _, _)
SplitFrom(t, i, cur) ==
    IF i > Len(t) THEN (IF cur = <<>> THEN <<>> ELSE <<cur>>)
    ELSE IF t[i] = NL THEN <<Append(cur, NL)>> \o SplitFrom(t, i + 1, <<>>)
    ELSE SplitFrom(t, i + 1, Append(cur, t[i]))

SplitLines(t) == SplitFrom(t, 1, <<>>)

RECURSIVE Join(_)
Join(lines) == IF lines = <<>> THEN <<>> ELSE Head(lines) \o Join(Tail(lines))

(***************************************************************************)
(* difflib.SequenceMatcher(None, a, b) over two sequences of lines.        *)
(* Indices are 0-based and ranges half-open, as in the library.            *)
(***************************************************************************)
Max(S) == CHOOSE x \in S : \A y \in S : y <= x
Min(S) == CHOOSE x \in S : \A y \in S : x <= y
Slice(s, lo, hi) == SubSeq(s, lo + 1, hi)

\* Length of the longest common run of a and b starting at a[i], b[j].
RECURSIVE RunLen(_, _, _, _, _, _)
RunLen(a, b, i, j, ahi, bhi) ==
    IF i < ahi /\ j < bhi /\ a[i + 1] = b[j + 1]
    THEN 1 + RunLen(a, b, i + 1, j + 1, ahi, bhi)
    ELSE 0

\* find_longest_match: the longest matching block in a[alo:ahi], b[blo:bhi];
\* of the longest ones the one starting earliest in a, then earliest in b.
FindLongestMatch(a, b, alo, ahi, blo, bhi) ==
    LET best == Max({0} \cup {RunLen(a, b, i, j, ahi, bhi) :
                              i \in alo..(ahi - 1), j \in blo..(bhi - 1)})
    IN IF best = 0 THEN [i |-> alo, j |-> blo, k |-> 0]
       ELSE LET bi == Min({i \in alo..(ahi - 1) :
                           \E j \in blo..(bhi - 1) : RunLen(a, b, i, j, ahi, bhi) = best})
                bj == Min({j \in blo..(bhi - 1) : RunLen(a, b, bi, j, ahi, bhi) = best})
            IN [i |-> bi, j |-> bj, k |-> best]

RECURSIVE MatchBetween(_, _, _, _, _, _)
MatchBetween(a, b, alo, ahi, blo, bhi) ==
    LET m == FindLongestMatch(a, b, alo, ahi, blo, bhi) IN
    IF m.k = 0 THEN <<>>
    ELSE (IF alo < m.i /\ blo < m.j
          THEN MatchBetween(a, b, alo, m.i, blo, m.j) ELSE <<>>)
         \o <<m>>
         \o (IF m.i + m.k < ahi /\ m.j + m.k < bhi
             THEN MatchBetween(a, b, m.i + m.k, ahi, m.j + m.k, bhi) ELSE <<>>)

\* Adjacent blocks are collapsed into one.
RECURSIVE Collapse(_, _)
Collapse(blocks, cur) ==
    IF blocks = <<>> THEN (IF cur.k > 0 THEN <<cur>> ELSE <<>>)
    ELSE LET n == Head(blocks) IN
         IF cur.i + cur.k = n.i /\ cur.j + cur.k = n.j
         THEN Collapse(Tail(blocks), [i |-> cur.i, j |-> cur.j, k |-> cur.k + n.k])
         ELSE (IF cur.k > 0 THEN <<cur>> ELSE <<>>) \o Collapse(Tail(blocks), n)

\* get_matching_blocks, with the closing sentinel (len(a), len(b), 0).
GetMatchingBlocks(a, b) ==
    Collapse(MatchBetween(a, b, 0, Len(a), 0, Len(b)), [i |-> 0, j |-> 0, k |-> 0])
    \o <<[i |-> Len(a), j |-> Len(b), k |-> 0]>>

OpCode(tag, i1, i2, j1, j2) == [tag |-> tag, i1 |-> i1, i2 |-> i2, j1 |-> j1, j2 |-> j2]

RECURSIVE OpCodesFrom(_, _, _)
OpCodesFrom(blocks, i, j) ==
    IF blocks = <<>> THEN <<>>
    ELSE LET m == Head(blocks)
             tag == IF i < m.i /\ j < m.j THEN "replace"
                    ELSE IF i < m.i THEN "delete"
                    ELSE IF j < m.j THEN "insert"
                    ELSE ""
         IN (IF tag # "" THEN <<OpCode(tag, i, m.i, j, m.j)>> ELSE <<>>)
            \o (IF m.k > 0 THEN <<OpCode("equal", m.i, m.i + m.k, m.j, m.j + m.k)>>
                ELSE <<>>)
            \o OpCodesFrom(Tail(blocks), m.i + m.k, m.j + m.k)

GetOpCodes(a, b) == OpCodesFrom(GetMatchingBlocks(a, b), 0, 0)

\* get_grouped_opcodes(n): the opcodes cut into hunks with n lines of context.
RECURSIVE GroupFrom(_, _, _, _)
GroupFrom(codes, idx, group, n) ==
    IF idx > Len(codes)
    THEN (IF group # <<>> /\ ~(Len(group) = 1 /\ group[1].tag = "equal")
          THEN <<group>> ELSE <<>>)
    ELSE LET c == codes[idx] IN
         IF c.tag = "equal" /\ c.i2 - c.i1 > n + n
         THEN <<Append(group, OpCode("equal", c.i1, Min({c.i2, c.i1 + n}),
                                     c.j1, Min({c.j2, c.j1 + n})))>>
              \o GroupFrom(codes, idx + 1,
                           <<OpCode("equal", Max({c.i1, c.i2 - n}), c.i2,
                                    Max({c.j1, c.j2 - n}), c.j2)>>, n)
         ELSE GroupFrom(codes, idx + 1, Append(group, c), n)

\* The leading and the trailing run of equal lines are cut to n lines.
TrimFirst(codes, n) ==
    IF codes[1].tag = "equal"
    THEN [codes EXCEPT ![1] = OpCode("equal", Max({codes[1].i1, codes[1].i2 - n}), codes[1].i2,
                                     Max({codes[1].j1, codes[1].j2 - n}), codes[1].j2)]
    ELSE codes

TrimLast(codes, n) ==
    IF codes[Len(codes)].tag = "equal"
    THEN [codes EXCEPT ![Len(codes)] =
            OpCode("equal", codes[Len(codes)].i1,
                   Min({codes[Len(codes)].i2, codes[Len(codes)].i1 + n}),
                   codes[Len(codes)].j1,
                   Min({codes[Len(codes)].j2, codes[Len(codes)].j1 + n}))]
    ELSE codes

OrOneEqual(codes) == IF codes = <<>> THEN <<OpCode("equal", 0, 1, 0, 1)>> ELSE codes

GetGroupedOpCodes(a, b, n) ==
    GroupFrom(TrimLast(TrimFirst(OrOneEqual(GetOpCodes(a, b)), n), n), 1, <<>>, n)

(***************************************************************************)
(* difflib.unified_diff(a, b, fromfile, tofile, lineterm='')               *)
(* A diff line is a token sequence; the control lines are spelt so that    *)
(* str.startswith('+'), ('+++'), ('-'), ('---') can be read off them.      *)
(***************************************************************************)
FromFileLine == <<"-", "-", "-", SP, "claude_context.json.old">>
ToFileLine == <<"+", "+", "+", SP, "claude_context.json.new">>

\* _format_range_unified(start, stop)
FormatRangeUnified(start, stop) ==
    LET length == stop - start IN
    IF length = 1 THEN ToString(start + 1)
    ELSE ToString(IF length = 0 THEN start ELSE start + 1) \o "," \o ToString(length)

Prefixed(p, lines) == [i \in 1..Len(lines) |-> <<p>> \o lines[i]]

RECURSIVE HunkBody(_, _, _, _)
HunkBody(a, b, group, idx) ==
    IF idx > Len(group) THEN <<>>
    ELSE LET c == group[idx] IN
         (IF c.tag = "equal" THEN Prefixed(SP, Slice(a, c.i1, c.i2))
          ELSE (IF c.tag \in {"replace", "delete"}
                THEN Prefixed("-", Slice(a, c.i1, c.i2)) ELSE <<>>)
               \o (IF c.tag \in {"replace", "insert"}
                   THEN Prefixed("+", Slice(b, c.j1, c.j2)) ELSE <<>>))
         \o HunkBody(a, b, group, idx + 1)

RECURSIVE HunksFrom(_, _, _, _)
HunksFrom(a, b, groups, g) ==
    IF g > Len(groups) THEN <<>>
    ELSE LET group == groups[g]
             first == group[1]
             last == group[Len(group)]
         IN <<<<"@@ -" \o FormatRangeUnified(first.i1, last.i2)
                \o " +" \o FormatRangeUnified(first.j1, last.j2) \o " @@">>>>
            \o HunkBody(a, b, group, 1)
            \o HunksFrom(a, b, groups, g + 1)

UnifiedDiff(a, b) ==
    LET groups == GetGroupedOpCodes(a, b, ContextLines) IN
    IF groups = <<>> THEN <<>>
    ELSE <<FromFileLine, ToFileLine>> \o HunksFrom(a, b, groups, 1)

\* line.startswith(p) for a one-character p
StartsWith(line, p) == line # <<>> /\ line[1] = p
\* line.startswith(p + p + p)
StartsWith3(line, p) == Len(line) >= 3 /\ line[1] = p /\ line[2] = p /\ line[3] = p

\* Mutant: the file-header lines are counted too.
CountLinesWithHeader(diff_lines, p) ==
    Cardinality({i \in 1..Len(diff_lines) : StartsWith(diff_lines[i], p)})

\* sum(1 for line in diff_lines if line.startswith(p) and not line.startswith(ppp))
CountLines(diff_lines, p) ==
    Cardinality({i \in 1..Len(diff_lines) :
                   StartsWith(diff_lines[i], p) /\ ~StartsWith3(diff_lines[i], p)})


(***************************************************************************)
(* The state.                                                              *)
(***************************************************************************)
VARIABLES
    store,            \* CONTEXT_FILE: [exists, text]
    log,              \* CHANGELOG_FILE: [exists, text]
    logDir,           \* whether CHANGELOG_FILE.parent (~/.claude) exists
    pc,               \* position of the running script
    op,               \* which script runs or ran last: "none", "update", "setup"
    runs,             \* invocations started so far
    stdin,            \* the payload given to the current update
    new_json,         \* update: the parsed payload; setup: the built context
    diff_lines,       \* update: the unified diff
    changelog_entry,  \* update: the block to append
    exitCode,         \* exit status of the last invocation (-1: none yet)
    stdout,           \* messages the last invocation printed
    stderr,           \* messages the last invocation printed on the error channel
    preStore,         \* history: the store when the current invocation began
    preLog,           \* history: the log when the current invocation began
    storeWrites,      \* history: opens of the store for writing in this invocation
    platform,         \* scanner: SystemScanner.platform
    scanPc,           \* scanner: position inside scan_all
    data,             \* scanner: the entries of the dict scan_all is building
    probed,           \* history: the commands run_command was called with
    raisedBy,         \* history: what made the scan raise ("" while it has not)
    host,             \* scan_gpus on its own: what the probes of the host do
    runPc,            \* run_command: "idle", "called", "returned" or "raised"
    cmd,              \* run_command: the command and the shell flag it is called with
    completed,        \* run_command: how subprocess.run ends for this call
    returned          \* run_command: the value returned (<<>> is the empty string)

updVars == <<store, log, logDir, pc, op, runs, stdin, new_json, diff_lines,
             changelog_entry, exitCode, stdout, stderr, preStore, preLog, storeWrites>>
scanVars == <<platform, scanPc, data, probed, raisedBy, host>>
runVars == <<runPc, cmd, completed, returned>>
vars == <<updVars, scanVars, runVars>>

File(text) == [exists |-> TRUE, text |-> text]
Absent == [exists |-> FALSE, text |-> <<>>]

(***************************************************************************)
(* The documents and payloads of the model.                                *)
(***************************************************************************)
One == JAtom("1")
Two == JAtom("2")
DocA == JObj(<<Member("a", One)>>)
DocAB == JObj(<<Member("a", One), Member("b", Two)>>)
DocBA == JObj(<<Member("b", Two), Member("a", One)>>)
DocNestAB == JObj(<<Member("a", DocAB)>>)
DocNestBA == JObj(<<Member("a", DocBA)>>)
Docs == {EmptyDict, DocA, DocAB, DocBA, DocNestAB, DocNestBA, One}

\* What  print(json.dumps(d, indent=2)) | update_context.py  puts on stdin.
Piped(d) == Dumps(d, FALSE) \o <<NL>>
\* {"a":1,"a":2} written compactly by hand: a repeated key.
CompactDup == <<"{", Quote("a"), ":", "1", ",", Quote("a"), ":", "2", "}">>
Malformed == { <<>>, <<SP, NL>>, <<"not", SP, "json">>,
               <<"{", Quote("a"), ":", "1", ",", "}">>,
               <<"{", "}", "{", "}">> }
Payloads == {Piped(d) : d \in Docs} \cup {CompactDup} \cup Malformed

\* datetime.now().strftime("%Y-%m-%d %H:%M:%S") in the n-th invocation: the clock
\* advances from one invocation to the next.
Now(n) == "2026-01-01 10:00:0" \o ToString(n)
Timestamps == {Now(n) : n \in 1..(MaxRuns + 1)}
SeparatorLine == "============================================================"

\* The contexts build_context can hand to the installation steps.
SetupContexts == {DocBA}

InitialStores == {Absent, File(<<>>), File(<<"not", SP, "json">>),
                  File(Piped(DocAB)), File(Piped(DocBA))}
InitialLogs == {Absent, File(<<"# earlier history", NL>>)}

NoDoc == JAtom("")

(***************************************************************************)
(* update_context.py: main                                                 *)
(***************************************************************************)
Idle == pc \in {"idle", "exited"}

\* sys.exit(code) after the given output; files untouched.
Exit(code, out, err) ==
    /\ pc' = "exited"
    /\ exitCode' = code
    /\ stdout' = out
    /\ stderr' = err

\* old_json of lines 43-54: the parsed store, or {} when absent or unparsable.
OldJson(st) ==
    IF st.exists /\ Loads(st.text).ok THEN Loads(st.text).val ELSE EmptyDict

\* The warning of line 49.
CorruptWarning(st) ==
    IF st.exists /\ ~Loads(st.text).ok
    THEN <<"WARNING: Current context file is invalid JSON, will be overwritten">>
    ELSE <<>>

\* Mutant: the texts are serialized without sort_keys.
FormattedUnsorted(json) == Dumps(json, FALSE) \o <<NL>>

\* Lines 56-58: the texts that are diffed.
Formatted(json) == Dumps(json, TRUE) \o <<NL>>

\* Mutant: the file headers are produced even when there is no hunk.
DiffLinesWithHeaders(old_json, json) ==
    <<FromFileLine, ToFileLine>>
    \o HunksFrom(SplitLines(Dumps(old_json, TRUE) \o <<NL>>),
                 SplitLines(Dumps(json, TRUE) \o <<NL>>),
                 GetGroupedOpCodes(SplitLines(Dumps(old_json, TRUE) \o <<NL>>),
                                   SplitLines(Dumps(json, TRUE) \o <<NL>>),
                                   ContextLines), 1)

\* Lines 60-67
DiffLines(old_json, json) ==
    UnifiedDiff(SplitLines(Formatted(old_json)), SplitLines(Formatted(json)))

\* Lines 73-78
ChangelogEntry(ts, dl) ==
    <<NL, SeparatorLine, NL, "# ", ts, NL, SeparatorLine, NL>> \o Join(dl) \o <<NL>>

\* Mutant: an unparsable payload falls back to the empty object, as the store does.
ReadInputLenient(inp) ==
    IF Strip(inp) = <<>> THEN [status |-> "empty", val |-> NoDoc]
    ELSE IF ~Loads(Strip(inp)).ok THEN [status |-> "ok", val |-> EmptyDict]
    ELSE [status |-> "ok", val |-> Loads(Strip(inp)).val]

\* Lines 30-41: the payload stripped and validated.
ReadInput(inp) ==
    IF Strip(inp) = <<>> THEN [status |-> "empty", val |-> NoDoc]
    ELSE IF ~Loads(Strip(inp)).ok THEN [status |-> "invalid", val |-> NoDoc]
    ELSE [status |-> "ok", val |-> Loads(Strip(inp)).val]

\* Lines 28-78: read stdin, validate, read the store, diff.  Nothing is written.
Start(inp) ==
    /\ Idle
    /\ runs < MaxRuns
    /\ runs' = runs + 1
    /\ op' = "update"
    /\ stdin' = inp
    /\ preStore' = store
    /\ preLog' = log
    /\ storeWrites' = 0
    /\ new_json' = ReadInput(inp).val
    /\ UNCHANGED <<store, log, logDir>>
    /\ IF ReadInput(inp).status = "empty"
       THEN /\ Exit(1, <<>>, <<"ERROR: No content provided on stdin">>)
            /\ diff_lines' = <<>>
            /\ changelog_entry' = <<>>
       ELSE IF ReadInput(inp).status = "invalid"
       THEN /\ Exit(1, <<>>, <<"ERROR: Invalid JSON in new content">>)
            /\ diff_lines' = <<>>
            /\ changelog_entry' = <<>>
       ELSE /\ diff_lines' = DiffLines(OldJson(store), ReadInput(inp).val)
            /\ IF diff_lines' = <<>>
               THEN /\ Exit(0, <<"No changes detected">>, CorruptWarning(store))
                    /\ changelog_entry' = <<>>
               ELSE /\ pc' = "mkdir"
                    /\ changelog_entry' = ChangelogEntry(Now(runs + 1), diff_lines')
                    /\ exitCode' = -1
                    /\ stdout' = <<>>
                    /\ stderr' = CorruptWarning(store)

\* Line 81: CHANGELOG_FILE.parent.mkdir(parents=True, exist_ok=True)
MakeLogDir ==
    /\ pc = "mkdir"
    /\ logDir' = TRUE
    /\ pc' = "append"
    /\ UNCHANGED <<store, log, op, runs, stdin, new_json, diff_lines, changelog_entry,
                   exitCode, stdout, stderr, preStore, preLog, storeWrites>>

\* Mutant: the file is created but the entry never reaches it.
AppendToLost(f, entry) == File(f.text)

\* open(CHANGELOG_FILE, 'a') ... f.write(entry): the file after the write.
AppendTo(f, entry) == File(f.text \o entry)

\* Lines 82-83
AppendLog ==
    /\ pc = "append"
    /\ log' = AppendTo(log, changelog_entry)
    /\ pc' = "open"
    /\ UNCHANGED <<store, logDir, op, runs, stdin, new_json, diff_lines, changelog_entry,
                   exitCode, stdout, stderr, preStore, preLog, storeWrites>>

\* Line 86: open(CONTEXT_FILE, 'w') creates or truncates the store.
OpenStore ==
    /\ pc = "open"
    /\ store' = File(<<>>)
    /\ storeWrites' = storeWrites + 1
    /\ pc' = "dump"
    /\ UNCHANGED <<log, logDir, op, runs, stdin, new_json, diff_lines, changelog_entry,
                   exitCode, stdout, stderr, preStore, preLog>>

\* Mutant: the store is written with sort_keys=True.
StoreTextSorted(json) == Dumps(json, TRUE)

\* Mutant: the previous document is written back instead of the new one.
StoreTextOfOld(json) == Dumps(OldJson(preStore), FALSE)

\* What line 87, json.dump(new_json, f, indent=2), writes.
StoreText(json) == Dumps(json, FALSE)

\* Line 87
DumpStore ==
    /\ pc = "dump"
    /\ store' = File(store.text \o StoreText(new_json))
    /\ pc' = "newline"
    /\ UNCHANGED <<log, logDir, op, runs, stdin, new_json, diff_lines, changelog_entry,
                   exitCode, stdout, stderr, preStore, preLog, storeWrites>>

\* Line 88
WriteNewline ==
    /\ pc = "newline"
    /\ store' = File(store.text \o <<NL>>)
    /\ pc' = "report"
    /\ UNCHANGED <<log, logDir, op, runs, stdin, new_json, diff_lines, changelog_entry,
                   exitCode, stdout, stderr, preStore, preLog, storeWrites>>

\* Lines 91-92
Additions(dl) == CountLines(dl, "+")
Deletions(dl) == CountLines(dl, "-")

\* Line 95
Summary(dl) ==
    "  +" \o ToString(Additions(dl)) \o " -" \o ToString(Deletions(dl)) \o " lines"

\* Lines 90-96; the script then ends with status 0.
Report ==
    /\ pc = "report"
    /\ pc' = "exited"
    /\ exitCode' = 0
    /\ stdout' = <<"Updated", Summary(diff_lines), "Diff appended">>
    /\ UNCHANGED <<store, log, logDir, op, runs, stdin, new_json, diff_lines,
                   changelog_entry, stderr, preStore, preLog, storeWrites>>


\* The process is killed between two statements of lines 80-96.
Crash ==
    /\ pc \in {"mkdir", "append", "open", "dump", "newline", "report",
               "s_mkdir", "s_context", "s_changelog"}
    /\ pc' = "exited"
    /\ exitCode' = 137
    /\ UNCHANGED <<store, log, logDir, op, runs, stdin, new_json, diff_lines,
                   changelog_entry, stdout, stderr, preStore, preLog, storeWrites>>

(***************************************************************************)
(* setup.py: main, the steps that touch the store and the changelog.       *)
(***************************************************************************)
\* Lines 289-309: scan, build the context.  Nothing is written yet.
SetupStart(context) ==
    /\ Idle
    /\ runs < MaxRuns
    /\ runs' = runs + 1
    /\ op' = "setup"
    /\ stdin' = <<>>
    /\ new_json' = context
    /\ diff_lines' = <<>>
    /\ changelog_entry' = <<>>
    /\ preStore' = store
    /\ preLog' = log
    /\ storeWrites' = 0
    /\ pc' = "s_mkdir"
    /\ exitCode' = -1
    /\ stdout' = <<>>
    /\ stderr' = <<>>
    /\ UNCHANGED <<store, log, logDir>>

\* Lines 312-313: claude_dir.mkdir(parents=True, exist_ok=True)
SetupMakeDir ==
    /\ pc = "s_mkdir"
    /\ logDir' = TRUE
    /\ pc' = "s_context"
    /\ UNCHANGED <<store, log, op, runs, stdin, new_json, diff_lines, changelog_entry,
                   exitCode, stdout, stderr, preStore, preLog, storeWrites>>

\* Line 317: context_path.write_text(json.dumps(context, indent=2) + "\n")
SetupWriteContext ==
    /\ pc = "s_context"
    /\ store' = File(Dumps(new_json, FALSE) \o <<NL>>)
    /\ storeWrites' = storeWrites + 1
    /\ pc' = "s_changelog"
    /\ UNCHANGED <<log, logDir, op, runs, stdin, new_json, diff_lines, changelog_entry,
                   exitCode, stdout, stderr, preStore, preLog>>

\* Lines 245-257: the content initialize_changelog writes.
BaselineContent(ts, context) ==
    <<"# Claude Persistent Context - Changelog", NL,
      "# This file tracks all changes to claude_context.json", NL,
      "# Use this to recover deleted information or review history", NL,
      NL,
      SeparatorLine, NL,
      "# ", ts, " - BASELINE", NL,
      SeparatorLine, NL>>
    \o Dumps(context, TRUE) \o <<NL, NL>>

\* Path.write_text(content): the file is opened with mode 'w' and written.
WriteText(f, content) == File(content)

\* Lines 241-260 (called at line 325), then the script ends with status 0.
InitializeChangelog ==
    /\ pc = "s_changelog"
    /\ log' = WriteText(log, BaselineContent(Now(runs), new_json))
    /\ pc' = "exited"
    /\ exitCode' = 0
    /\ stdout' = <<"Setup complete!">>
    /\ UNCHANGED <<store, logDir, op, runs, stdin, new_json, diff_lines,
                   changelog_entry, stderr, preStore, preLog, storeWrites>>

(***************************************************************************)
(* The specification of the update and setup scripts.                      *)
(***************************************************************************)
ScanIdle ==
    /\ platform = "linux"
    /\ scanPc = "idle"
    /\ data = <<>>
    /\ probed = {}
    /\ raisedBy = ""
    /\ host = <<>>

\* No call of run_command is under way.
RunIdle ==
    /\ runPc = "idle"
    /\ cmd = [name |-> "", shell |-> FALSE]
    /\ completed = [kind |-> "ok", out |-> <<>>]
    /\ returned = <<>>

Init ==
    /\ store \in InitialStores
    /\ log \in InitialLogs
    /\ logDir \in BOOLEAN
    /\ (log.exists => logDir)
    /\ pc = "idle"
    /\ op = "none"
    /\ runs = 0
    /\ stdin = <<>>
    /\ new_json = NoDoc
    /\ diff_lines = <<>>
    /\ changelog_entry = <<>>
    /\ exitCode = -1
    /\ stdout = <<>>
    /\ stderr = <<>>
    /\ preStore = store
    /\ preLog = log
    /\ storeWrites = 0
    /\ ScanIdle
    /\ RunIdle

Next ==
    \/ /\ \E inp \in Payloads : Start(inp)
       /\ UNCHANGED <<scanVars, runVars>>
    \/ /\ MakeLogDir
       /\ UNCHANGED <<scanVars, runVars>>
    \/ /\ AppendLog
       /\ UNCHANGED <<scanVars, runVars>>
    \/ /\ OpenStore
       /\ UNCHANGED <<scanVars, runVars>>
    \/ /\ DumpStore
       /\ UNCHANGED <<scanVars, runVars>>
    \/ /\ WriteNewline
       /\ UNCHANGED <<scanVars, runVars>>
    \/ /\ Report
       /\ UNCHANGED <<scanVars, runVars>>
    \/ /\ Crash
       /\ UNCHANGED <<scanVars, runVars>>
    \/ /\ \E context \in SetupContexts : SetupStart(context)
       /\ UNCHANGED <<scanVars, runVars>>
    \/ /\ SetupMakeDir
       /\ UNCHANGED <<scanVars, runVars>>
    \/ /\ SetupWriteContext
       /\ UNCHANGED <<scanVars, runVars>>
    \/ /\ InitializeChangelog
       /\ UNCHANGED <<scanVars, runVars>>

Spec == Init /\ [][Next]_vars


(***************************************************************************)
(* scanner.py.  The output of a probe is a sequence of lines; a line is    *)
(* kept in the pieces its parser cuts it into (fields, comma-separated     *)
(* parts, label and value).  A probe outcome says how the process ended    *)
(* and what it printed.                                                    *)
(***************************************************************************)
Outcome(kind, out) == [kind |-> kind, out |-> out]

\* The ways subprocess.run can end: exit status 0, another exit status, no such
\* executable (FileNotFoundError), timeout (TimeoutExpired), and an executable
\* that may not be run (PermissionError, an OSError).
OutcomeKinds == {"ok", "nonzero", "notfound", "timeout", "permission"}

\* A line of nothing but whitespace.
Blank == <<>>

\* Line 28: result.stdout.strip(), on lines: the blank lines before the first and
\* after the last printed line go.
RECURSIVE LStripOutput(_)
LStripOutput(out) ==
    IF out # <<>> /\ Head(out) = Blank THEN LStripOutput(Tail(out)) ELSE out
RECURSIVE RStripOutput(_)
RStripOutput(out) ==
    IF out # <<>> /\ out[Len(out)] = Blank THEN RStripOutput(SubSeq(out, 1, Len(out) - 1))
    ELSE out
StripOutput(out) == RStripOutput(LStripOutput(out))

\* Lines 18-30: run_command.  raised: the exception leaves run_command.
RunCommand(o) ==
    IF o.kind \in {"ok", "nonzero"} THEN [raised |-> FALSE, out |-> StripOutput(o.out)]
    ELSE IF o.kind \in {"notfound", "timeout"} THEN [raised |-> FALSE, out |-> <<>>]
    ELSE [raised |-> TRUE, out |-> <<>>]

\* str.lower() of the names platform.system() gives.
Lower(system) ==
    CASE system = "Linux" -> "linux"
      [] system = "Darwin" -> "darwin"
      [] system = "Windows" -> "windows"
      [] OTHER -> "freebsd"

Systems == {"Linux", "Darwin", "Windows", "FreeBSD"}

\* Lines 33-38: get_platform
GetPlatform(system) == IF Lower(system) = "darwin" THEN "macos" ELSE Lower(system)

\* int(s) for the decimal strings of the model; any other string is a ValueError.
IntTable == [t \in {"0", "1", "2", "4", "8", "1572864", "16384000", "1073741824"} |->
               CASE t = "0" -> 0
                 [] t = "1" -> 1
                 [] t = "2" -> 2
                 [] t = "4" -> 4
                 [] t = "8" -> 8
                 [] t = "1572864" -> 1572864
                 [] t = "16384000" -> 16384000
                 [] t = "1073741824" -> 1073741824]
IsDigit(t) == t \in DOMAIN IntTable
ToInt(t) == IntTable[t]

\* round(n / d) of Python 3: to nearest, ties to even.
Round(n, d) ==
    LET q == n \div d
        r == n % d
    IN IF 2 * r > d THEN q + 1
       ELSE IF 2 * r < d THEN q
       ELSE IF q % 2 = 0 THEN q ELSE q + 1

\* The result of an extractor: it raised, or it returned val.
Returned(v) == [raised |-> FALSE, val |-> v]
Raised == [raised |-> TRUE, val |-> <<>>]

(***************************************************************************)
(* scan_cpu, lines 62-107.  lscpu lines are <<label, value>> for           *)
(* "label: value"; wmic csv lines are their comma-separated parts.         *)
(***************************************************************************)
CpuDefault == [model |-> "Unknown", cores |-> 0, threads |-> 0]

\* Lines 70-81: one lscpu line; acc = [info, cores_per, sockets] (0 stands for None).
LscpuLine(acc, line) ==
    IF line[1] = "Model name" THEN [acc EXCEPT !.info.model = line[2]]
    ELSE IF line[1] = "CPU(s)"
         THEN (IF IsDigit(line[2]) THEN [acc EXCEPT !.info.threads = ToInt(line[2])] ELSE acc)
    ELSE IF line[1] = "Core(s) per socket"
         THEN (IF IsDigit(line[2]) THEN [acc EXCEPT !.cores_per = ToInt(line[2])] ELSE acc)
    ELSE IF line[1] = "Socket(s)"
         THEN (IF IsDigit(line[2]) THEN [acc EXCEPT !.sockets = ToInt(line[2])] ELSE acc)
    ELSE acc

RECURSIVE LscpuFold(_, _)
LscpuFold(acc, lines) ==
    IF lines = <<>> THEN acc ELSE LscpuFold(LscpuLine(acc, Head(lines)), Tail(lines))

\* Lines 66-83
CpuLinux(out) ==
    LET acc == LscpuFold([info |-> CpuDefault, cores_per |-> 0, sockets |-> 0], out)
    IN IF acc.cores_per # 0 /\ acc.sockets # 0
       THEN [acc.info EXCEPT !.cores = acc.cores_per * acc.sockets]
       ELSE acc.info

\* The single line a sysctl -n prints, "" when there is none.
FirstWord(out) == IF out = <<>> \/ Head(out) = <<>> THEN "" ELSE Head(out)[1]

\* Lines 85-95: the int() of cores comes first; a ValueError skips the rest.
CpuMacos(brand, cores, threads) ==
    LET m == [CpuDefault EXCEPT !.model = IF FirstWord(brand) = "" THEN "Unknown"
                                           ELSE FirstWord(brand)]
        c == FirstWord(cores)
        t == FirstWord(threads)
    IN IF c # "" /\ ~IsDigit(c) THEN m
       ELSE LET mc == IF c # "" THEN [m EXCEPT !.cores = ToInt(c)] ELSE m
            IN IF t # "" /\ IsDigit(t) THEN [mc EXCEPT !.threads = ToInt(t)] ELSE mc

\* [l for l in wmic.split("\n") if l.strip() and not l.startswith("Node")]
CsvRows(out) == SelectSeq(out, LAMBDA l : l # <<>> /\ l[1] # "Node")

\* The same filter over rows kept as [parts, hint].
CsvRowsOf(out) == SelectSeq(out, LAMBDA r : r.parts # <<>> /\ r.parts[1] # "Node")

\* Lines 97-105
CpuWindows(out) ==
    LET lines == CsvRows(out) IN
    IF lines # <<>> /\ Len(lines[1]) >= 4
    THEN [model |-> lines[1][2],
          cores |-> IF IsDigit(lines[1][3]) THEN ToInt(lines[1][3]) ELSE 0,
          threads |-> IF IsDigit(lines[1][4]) THEN ToInt(lines[1][4]) ELSE 0]
    ELSE CpuDefault

(***************************************************************************)
(* scan_memory, lines 109-134.  /proc/meminfo lines are their whitespace-  *)
(* separated fields.                                                       *)
(***************************************************************************)
MemDefault == [total_gb |-> 0]

\* line.startswith("MemTotal:"), read off the first field
IsMemTotal(line) == line # <<>> /\ line[1] \in {"MemTotal:", "MemTotal:16384000"}

\* Lines 113-119: the first MemTotal line decides; int(line.split()[1]) raises
\* IndexError on a line of one field and ValueError on a field that is no number.
RECURSIVE MemLinux(_)
MemLinux(lines) ==
    IF lines = <<>> THEN Returned(MemDefault)
    ELSE IF IsMemTotal(Head(lines))
         THEN (IF Len(Head(lines)) < 2 \/ ~IsDigit(Head(lines)[2]) THEN Raised
               ELSE Returned([total_gb |-> Round(ToInt(Head(lines)[2]), 1024 * 1024)]))
    ELSE MemLinux(Tail(lines))

\* Lines 121-124: int(mem_bytes) raises ValueError on a text that is no number.
MemMacos(out) ==
    IF out = <<>> THEN Returned(MemDefault)
    ELSE IF Len(out) = 1 /\ Len(out[1]) = 1 /\ IsDigit(out[1][1])
         THEN Returned([total_gb |-> Round(ToInt(out[1][1]), 1024 * 1024 * 1024)])
    ELSE Raised

\* Lines 126-132
MemWindows(out) ==
    LET lines == CsvRows(out) IN
    IF lines # <<>> /\ Len(lines[1]) >= 2 /\ IsDigit(lines[1][2])
    THEN [total_gb |-> Round(ToInt(lines[1][2]), 1024 * 1024 * 1024)]
    ELSE MemDefault


(***************************************************************************)
(* scan_gpus, lines 136-243.  A model name is a sequence of characters, so *)
(* that  x in y  is containment of one sequence in the other.              *)
(***************************************************************************)
\* x in y, for strings kept as sequences of characters
IsInfix(x, y) ==
    \E i \in 0..(Len(y) - Len(x)) : SubSeq(y, i + 1, i + Len(x)) = x

Chars_RX == <<"R", "X">>
Chars_RX5 == <<"R", "X", "5">>
Chars_RTX == <<"R", "T", "X">>
Chars_UHD == <<"U", "H", "D">>
Chars_M1 == <<"M", "1">>
AmdGpu == <<"A", "M", "D", " ", "G", "P", "U">>
IntelGpu == <<"I", "n", "t", "e", "l", " ", "G", "P", "U">>
UnknownAmdGpu == <<"U", "n", "k", "n", "o", "w", "n", " ", "A", "M", "D", " ", "G", "P", "U">>
UnknownModel == <<"U", "n", "k", "n", "o", "w", "n">>

GpuFold(raised, gpus) == [raised |-> raised, gpus |-> gpus]

\* Lines 147-159: one record per nvidia-smi line of at least five comma-separated
\* parts; int(parts[0]) raises ValueError when the first part is no number.
RECURSIVE NvidiaLines(_, _)
NvidiaLines(gpus, lines) ==
    IF lines = <<>> THEN GpuFold(FALSE, gpus)
    ELSE LET parts == Head(lines) IN
         IF Len(parts) < 5 THEN NvidiaLines(gpus, Tail(lines))
         ELSE IF ~IsDigit(parts[1]) THEN GpuFold(TRUE, gpus)
         ELSE NvidiaLines(
                Append(gpus, [vendor |-> "NVIDIA",
                              index |-> ToInt(parts[1]),
                              model |-> parts[2],
                              vram_mb |-> IF IsDigit(parts[3]) THEN ToInt(parts[3]) ELSE 0,
                              pcie_bus |-> parts[4],
                              uuid |-> parts[5]]),
                Tail(lines))

\* Lines 167-174: the cards of the parsed rocm-smi document, in order.  A card is
\* [id, num, isDict, hasSeries, series, vram]: its key, the key without "card", and
\* what its value holds.  KeyError and ValueError end the loop silently (line 175);
\* a value that is no dict raises AttributeError, which is not caught.
RECURSIVE RocmCards(_, _)
RocmCards(gpus, cards) ==
    IF cards = <<>> THEN GpuFold(FALSE, gpus)
    ELSE LET c == Head(cards) IN
         IF c.id # "card" THEN RocmCards(gpus, Tail(cards))
         ELSE IF ~IsDigit(c.num) THEN GpuFold(FALSE, gpus)
         ELSE IF ~c.isDict THEN GpuFold(TRUE, gpus)
         ELSE IF ~IsDigit(c.vram) THEN GpuFold(FALSE, gpus)
         ELSE RocmCards(
                Append(gpus, [vendor |-> "AMD",
                              index |-> ToInt(c.num),
                              model |-> IF c.hasSeries THEN c.series ELSE UnknownAmdGpu,
                              vram_mb |-> ToInt(c.vram) \div (1024 * 1024)]),
                Tail(cards))

\* Lines 164-176: the output is a set of pre-parsed shapes: "invalid" is no JSON
\* (JSONDecodeError, caught), "list" is JSON that is no object (data.items() raises
\* AttributeError), "dict" is an object with the given cards.
RocmRecords(gpus, out) ==
    IF out = <<>> THEN GpuFold(FALSE, gpus)
    ELSE IF out[1].shape = "invalid" THEN GpuFold(FALSE, gpus)
    ELSE IF out[1].shape = "list" THEN GpuFold(TRUE, gpus)
    ELSE RocmCards(gpus, out[1].cards)

\* Lines 181-201: an lspci line is [vga, amd, intel, match, model]: whether it names
\* a VGA or 3D controller, whether it mentions AMD/ATI/Radeon, whether it mentions
\* Intel, and the text the regular expression finds between ":" and "[", if any.
RECURSIVE LspciLines(_, _)
LspciLines(gpus, lines) ==
    IF lines = <<>> THEN gpus
    ELSE LET l == Head(lines) IN
         IF ~l.vga THEN LspciLines(gpus, Tail(lines))
         ELSE IF l.amd
         THEN LET model == IF l.match THEN l.model ELSE AmdGpu IN
              IF ~\E i \in 1..Len(gpus) :
                    gpus[i].vendor = "AMD" /\ IsInfix(model, gpus[i].model)
              THEN LspciLines(Append(gpus, [vendor |-> "AMD", model |-> model,
                                            source |-> "lspci"]), Tail(lines))
              ELSE LspciLines(gpus, Tail(lines))
         ELSE IF l.intel
         THEN LspciLines(Append(gpus, [vendor |-> "Intel",
                                       model |-> IF l.match THEN l.model ELSE IntelGpu,
                                       source |-> "lspci"]), Tail(lines))
         ELSE LspciLines(gpus, Tail(lines))

\* Lines 216-221: vram is the text of spdisplays_vram; int() of what is left after
\* "MB" or "GB" is taken away.  "bad": a ValueError.
VramOf(vram) ==
    CASE vram = "1536 MB" -> [kind |-> "mb", mb |-> 1536]
      [] vram = "4 GB" -> [kind |-> "mb", mb |-> 4096]
      [] vram = "shared MB" -> [kind |-> "bad", mb |-> 0]
      [] OTHER -> [kind |-> "none", mb |-> 0]

\* Lines 210-222: a display is [vendor, apple, model, vram]: sppci_vendor (or
\* "Unknown"), whether it contains "apple" in any case, sppci_model, spdisplays_vram.
RECURSIVE Displays(_, _, _)
Displays(gpus, displays, i) ==
    IF i > Len(displays) THEN GpuFold(FALSE, gpus)
    ELSE LET d == displays[i]
             base == [vendor |-> IF d.apple THEN "Apple" ELSE d.vendor,
                      index |-> i - 1,
                      model |-> d.model]
         IN IF VramOf(d.vram).kind = "bad" THEN GpuFold(FALSE, gpus)
            ELSE IF VramOf(d.vram).kind = "mb"
            THEN Displays(Append(gpus, [vendor |-> base.vendor, index |-> base.index,
                                        model |-> base.model,
                                        vram_mb |-> VramOf(d.vram).mb]),
                          displays, i + 1)
            ELSE Displays(Append(gpus, base), displays, i + 1)

\* Lines 206-224: shapes as for rocm-smi: "list" makes data.get raise AttributeError.
MacRecords(gpus, out) ==
    IF out = <<>> THEN GpuFold(FALSE, gpus)
    ELSE IF out[1].shape = "invalid" THEN GpuFold(FALSE, gpus)
    ELSE IF out[1].shape = "list" THEN GpuFold(TRUE, gpus)
    ELSE Displays(gpus, out[1].displays, 1)

\* Line 235: the vendor read off the lower-cased name; a row is
\* <<node, adapterram, name>> and hint says which vendor word the name contains.
WinVendor(hint) ==
    IF hint = "nvidia" THEN "NVIDIA"
    ELSE IF hint \in {"amd", "radeon"} THEN "AMD"
    ELSE IF hint = "intel" THEN "Intel"
    ELSE "Unknown"

\* Lines 230-241: a row is [parts, hint]
RECURSIVE WmicRows(_, _, _)
WmicRows(gpus, rows, i) ==
    IF i > Len(rows) THEN gpus
    ELSE IF Len(rows[i].parts) >= 3
    THEN WmicRows(Append(gpus, [vendor |-> WinVendor(rows[i].hint),
                                index |-> i - 1,
                                model |-> rows[i].parts[3],
                                vram_mb |-> IF IsDigit(rows[i].parts[2])
                                            THEN ToInt(rows[i].parts[2]) \div (1024 * 1024)
                                            ELSE 0]),
                  rows, i + 1)
    ELSE WmicRows(gpus, rows, i + 1)

\* Mutant: lspci is asked on Linux whatever the vendor tools found.
LspciWantedAlways(plat, gpus) == plat = "linux"

\* Line 179: lspci is asked on Linux when no record so far is AMD.
LspciWanted(plat, gpus) ==
    plat = "linux" /\ ~\E i \in 1..Len(gpus) : gpus[i].vendor = "AMD"

\* A probe that is not reached produces nothing.
NoProbe == Outcome("ok", <<>>)

\* Lines 136-243.  nv, rocm: [which, outcome] for the two vendor tools; lspci, sp,
\* wmic: the outcomes of the three platform probes.
ScanGpus(plat, nv, rocm, lspci, sp, wmic) ==
    LET nvRun == nv.which
        nvOut == RunCommand(nv.outcome)
        g1 == IF nvRun /\ ~nvOut.raised THEN NvidiaLines(<<>>, nvOut.out)
              ELSE GpuFold(nvRun /\ nvOut.raised, <<>>)
        rocmRun == ~g1.raised /\ rocm.which
        rocmOut == RunCommand(rocm.outcome)
        g2 == IF rocmRun /\ ~rocmOut.raised THEN RocmRecords(g1.gpus, rocmOut.out)
              ELSE GpuFold(g1.raised \/ (rocmRun /\ rocmOut.raised), g1.gpus)
        lspciRun == ~g2.raised /\ LspciWanted(plat, g2.gpus)
        lspciOut == RunCommand(lspci)
        g3 == IF lspciRun /\ ~lspciOut.raised
              THEN GpuFold(FALSE, LspciLines(g2.gpus, lspciOut.out))
              ELSE GpuFold(g2.raised \/ (lspciRun /\ lspciOut.raised), g2.gpus)
        spRun == ~g3.raised /\ plat = "macos"
        spOut == RunCommand(sp)
        g4 == IF spRun /\ ~spOut.raised THEN MacRecords(g3.gpus, spOut.out)
              ELSE GpuFold(g3.raised \/ (spRun /\ spOut.raised), g3.gpus)
        wmicRun == ~g4.raised /\ plat = "windows" /\ g4.gpus = <<>>
        wmicOut == RunCommand(wmic)
        g5 == IF wmicRun /\ ~wmicOut.raised
              THEN GpuFold(FALSE, WmicRows(g4.gpus, CsvRowsOf(wmicOut.out), 1))
              ELSE GpuFold(g4.raised \/ (wmicRun /\ wmicOut.raised), g4.gpus)
    IN [raised |-> g5.raised,
        why |-> IF ~g5.raised THEN ""
                ELSE IF \/ (nvRun /\ nvOut.raised) \/ (rocmRun /\ rocmOut.raised)
                        \/ (lspciRun /\ lspciOut.raised) \/ (spRun /\ spOut.raised)
                        \/ (wmicRun /\ wmicOut.raised)
                THEN "run_command" ELSE "scan_gpus",
        val |-> g5.gpus,
        probes |-> (IF nvRun THEN {"nvidia-smi"} ELSE {})
                   \cup (IF rocmRun THEN {"rocm-smi"} ELSE {})
                   \cup (IF lspciRun THEN {"lspci"} ELSE {})
                   \cup (IF spRun THEN {"system_profiler"} ELSE {})
                   \cup (IF wmicRun THEN {"wmic videocontroller"} ELSE {})]


(***************************************************************************)
(* scan_storage, lines 245-287.                                            *)
(***************************************************************************)
RECURSIVE JoinWords(_)
JoinWords(ws) ==
    IF ws = <<>> THEN ""
    ELSE IF Len(ws) = 1 THEN ws[1]
    ELSE ws[1] \o " " \o JoinWords(Tail(ws))

\* Lines 251-258: lsblk lines are their whitespace-separated fields.
RECURSIVE StorageLinux(_)
StorageLinux(lines) ==
    IF lines = <<>> THEN <<>>
    ELSE LET parts == Head(lines) IN
         (IF Len(parts) >= 3 /\ parts[3] = "disk"
          THEN <<[device |-> "/dev/" \o parts[1],
                  size |-> parts[2],
                  model |-> IF Len(parts) > 3 THEN JoinWords(SubSeq(parts, 4, Len(parts)))
                            ELSE "Unknown"]>>
          ELSE <<>>)
         \o StorageLinux(Tail(lines))

\* parts[0].rstrip(":")
RStripColon(w) == IF w = "/dev/disk1:" THEN "/dev/disk1" ELSE w

\* Lines 264-271: a diskutil line is [fields, physical]: its fields and whether it
\* contains "physical" in any case; it starts with /dev/disk when its first field does.
RECURSIVE StorageMacos(_)
StorageMacos(lines) ==
    IF lines = <<>> THEN <<>>
    ELSE LET l == Head(lines) IN
         (IF l.fields # <<>> /\ l.fields[1] \in {"/dev/disk0", "/dev/disk1:"} /\ l.physical
          THEN <<[device |-> RStripColon(l.fields[1]),
                  size |-> "Unknown", model |-> "Unknown"]>>
          ELSE <<>>)
         \o StorageMacos(Tail(lines))

\* Lines 276-285: wmic rows <<node, model, size>>
RECURSIVE StorageWindows(_)
StorageWindows(rows) ==
    IF rows = <<>> THEN <<>>
    ELSE LET parts == Head(rows) IN
         (IF Len(parts) >= 3
          THEN <<[device |-> "N/A",
                  size |-> ToString(Round(IF IsDigit(parts[3]) THEN ToInt(parts[3]) ELSE 0,
                                          1024 * 1024 * 1024)) \o "G",
                  model |-> parts[2]]>>
          ELSE <<>>)
         \o StorageWindows(Tail(rows))

(***************************************************************************)
(* scan_network, lines 289-351.  The dict  interfaces  is the sequence of  *)
(* its values in insertion order.                                          *)
(***************************************************************************)
Iface(name) == [name |-> name, ipv4 |-> <<>>, ipv6 |-> <<>>]
HasIface(ifs, name) == \E i \in 1..Len(ifs) : ifs[i].name = name

\* interfaces[name][family].append(addr)
AddAddr(ifs, name, family, addr) ==
    [i \in 1..Len(ifs) |->
        IF ifs[i].name = name
        THEN (IF family = "ipv4" THEN [ifs[i] EXCEPT !.ipv4 = Append(@, addr)]
              ELSE [ifs[i] EXCEPT !.ipv6 = Append(@, addr)])
        ELSE ifs[i]]

\* interfaces[name] = {"name": name, "ipv4": [], "ipv6": []}
ResetIface(ifs, name) ==
    IF HasIface(ifs, name)
    THEN [i \in 1..Len(ifs) |-> IF ifs[i].name = name THEN Iface(name) ELSE ifs[i]]
    ELSE Append(ifs, Iface(name))

\* addr.split("/")[0] and addr.split("%")[0]
BeforeSlash(a) ==
    CASE a = "10.0.0.1/24" -> "10.0.0.1"
      [] a = "127.0.0.1/8" -> "127.0.0.1"
      [] a = "fe80::1/64" -> "fe80::1"
      [] OTHER -> a
BeforePercent(a) == IF a = "fe80::1%en0" THEN "fe80::1" ELSE a

\* Lines 297-307: the lines of  ip -o addr show  are their whitespace-separated fields.
RECURSIVE NetLinux(_, _)
NetLinux(ifs, lines) ==
    IF lines = <<>> THEN ifs
    ELSE LET parts == Head(lines) IN
         IF Len(parts) >= 4 /\ parts[3] \in {"inet", "inet6"}
         THEN NetLinux(AddAddr(IF HasIface(ifs, parts[2]) THEN ifs
                               ELSE Append(ifs, Iface(parts[2])),
                               parts[2],
                               IF parts[3] = "inet" THEN "ipv4" ELSE "ipv6",
                               BeforeSlash(parts[4])),
                       Tail(lines))
         ELSE NetLinux(ifs, Tail(lines))

\* The element after the first occurrence of w: parts[parts.index(w) + 1], "" when
\* w is the last element.
After(parts, w) ==
    LET i == CHOOSE i \in 1..Len(parts) :
                 parts[i] = w /\ \A j \in 1..(i - 1) : parts[j] # w
    IN IF i < Len(parts) THEN parts[i + 1] ELSE ""

\* Lines 315-328: an ifconfig line is [head, name, inet, inet6, fields]: whether it
\* is a non-empty line without a leading tab that holds a colon, the text before
\* its first colon, whether it contains "inet " and "inet6 ", and its fields.
\* parts.index(w) raises ValueError when no field is exactly w.
RECURSIVE NetMacos(_, _, _)
NetMacos(ifs, cur, lines) ==
    IF lines = <<>> THEN [raised |-> FALSE, ifs |-> ifs]
    ELSE LET l == Head(lines) IN
         IF l.head THEN NetMacos(ResetIface(ifs, l.name), l.name, Tail(lines))
         ELSE IF cur # "" /\ l.inet
         THEN (IF ~\E i \in 1..Len(l.fields) : l.fields[i] = "inet"
               THEN [raised |-> TRUE, ifs |-> ifs]
               ELSE IF After(l.fields, "inet") # ""
               THEN NetMacos(AddAddr(ifs, cur, "ipv4", After(l.fields, "inet")),
                             cur, Tail(lines))
               ELSE NetMacos(ifs, cur, Tail(lines)))
         ELSE IF cur # "" /\ l.inet6
         THEN (IF ~\E i \in 1..Len(l.fields) : l.fields[i] = "inet6"
               THEN [raised |-> TRUE, ifs |-> ifs]
               ELSE IF After(l.fields, "inet6") # ""
               THEN NetMacos(AddAddr(ifs, cur, "ipv6",
                                     BeforePercent(After(l.fields, "inet6"))),
                             cur, Tail(lines))
               ELSE NetMacos(ifs, cur, Tail(lines)))
         ELSE NetMacos(ifs, cur, Tail(lines))

\* ":".join(parts)
RECURSIVE JoinColons(_)
JoinColons(ps) ==
    IF ps = <<>> THEN ""
    ELSE IF Len(ps) = 1 THEN ps[1]
    ELSE ps[1] \o ":" \o JoinColons(Tail(ps))

\* The command scan_network runs on each platform.
NetProbe(plat) ==
    CASE plat = "linux" -> "ip addr"
      [] plat = "macos" -> "ifconfig"
      [] OTHER -> "ipconfig"

\* Lines 336-347: an ipconfig line is [adapter, ipv4, ipv6, parts]: whether it
\* contains "adapter" (in any case) and a colon, whether it contains "ipv4",
\* "ipv6", and its colon-separated parts, stripped.
RECURSIVE NetWindows(_, _, _)
NetWindows(ifs, cur, lines) ==
    IF lines = <<>> THEN ifs
    ELSE LET l == Head(lines) IN
         IF l.adapter THEN NetWindows(ResetIface(ifs, l.parts[1]), l.parts[1], Tail(lines))
         ELSE IF cur # "" /\ l.ipv4
         THEN NetWindows(IF Len(l.parts) >= 2 THEN AddAddr(ifs, cur, "ipv4", l.parts[2])
                         ELSE ifs, cur, Tail(lines))
         ELSE IF cur # "" /\ l.ipv6
         THEN NetWindows(IF Len(l.parts) >= 2
                         THEN AddAddr(ifs, cur, "ipv6", JoinColons(Tail(l.parts)))
                         ELSE ifs, cur, Tail(lines))
         ELSE NetWindows(ifs, cur, Tail(lines))

\* Mutant: every interface seen is kept.
RetainedAll(ifs) == ifs

\* Line 330: [v for v in interfaces.values() if v["ipv4"] or v["ipv6"]]
RetainedMacos(ifs) == SelectSeq(ifs, LAMBDA v : v.ipv4 # <<>> \/ v.ipv6 # <<>>)

\* Line 349: [v for v in interfaces.values() if v["ipv4"]]
RetainedWindows(ifs) == SelectSeq(ifs, LAMBDA v : v.ipv4 # <<>>)

\* Lines 289-351
ScanNetwork(plat, o) ==
    IF plat \notin {"linux", "macos", "windows"}
    THEN [raised |-> FALSE, why |-> "", val |-> [interfaces |-> <<>>], probes |-> {}]
    ELSE IF RunCommand(o).raised
    THEN [raised |-> TRUE, why |-> "run_command", val |-> <<>>,
          probes |-> {NetProbe(plat)}]
    ELSE IF plat = "linux"
    THEN [raised |-> FALSE, why |-> "",
          val |-> [interfaces |-> NetLinux(<<>>, RunCommand(o).out)],
          probes |-> {NetProbe(plat)}]
    ELSE IF plat = "macos"
    THEN [raised |-> NetMacos(<<>>, "", RunCommand(o).out).raised,
          why |-> IF NetMacos(<<>>, "", RunCommand(o).out).raised THEN "scan_network"
                  ELSE "",
          val |-> [interfaces |-> RetainedMacos(NetMacos(<<>>, "", RunCommand(o).out).ifs)],
          probes |-> {NetProbe(plat)}]
    ELSE [raised |-> FALSE, why |-> "",
          val |-> [interfaces |-> RetainedWindows(NetWindows(<<>>, "", RunCommand(o).out))],
          probes |-> {NetProbe(plat)}]

(***************************************************************************)
(* scan_ssh_keys, lines 353-379.  The key directory is [exists, pubs]; a   *)
(* public-key file is [stem, has_private, readable, words]: its name       *)
(* without .pub, whether a file of that name exists, whether read_text     *)
(* succeeds, and the words of its content.                                 *)
(***************************************************************************)
\* content.startswith("ssh-")
StartsWithSsh(words) == words # <<>> /\ words[1] \in {"ssh-ed25519", "ssh-rsa"}

RECURSIVE SshKeys(_, _)
SshKeys(keys, pubs) ==
    IF pubs = <<>> THEN Returned(keys)
    ELSE LET p == Head(pubs) IN
         IF ~p.readable THEN Raised
         ELSE SshKeys(
                Append(keys,
                       IF StartsWithSsh(p.words)
                       THEN [name |-> p.stem, public_key |-> p.stem \o ".pub",
                             has_private |-> p.has_private, type |-> p.words[1]]
                       ELSE [name |-> p.stem, public_key |-> p.stem \o ".pub",
                             has_private |-> p.has_private]),
                Tail(pubs))

ScanSshKeys(dir) == IF ~dir.exists THEN Returned(<<>>) ELSE SshKeys(<<>>, dir.pubs)


(***************************************************************************)
(* The extractors with their probes.  A result is [raised, why, val,       *)
(* probes]: whether an exception left the extractor, where it came from,   *)
(* the value returned, and the commands that were run.                     *)
(***************************************************************************)
Res(v, probes) == [raised |-> FALSE, why |-> "", val |-> v, probes |-> probes]
Exc(why, probes) == [raised |-> TRUE, why |-> why, val |-> <<>>, probes |-> probes]

\* Lines 62-107; o1..o3 are the outcomes of the probes in the order they are run.
ScanCpu(plat, o1, o2, o3) ==
    IF plat = "linux"
    THEN (IF RunCommand(o1).raised THEN Exc("run_command", {"lscpu"})
          ELSE Res(CpuLinux(RunCommand(o1).out), {"lscpu"}))
    ELSE IF plat = "macos"
    THEN (IF RunCommand(o1).raised THEN Exc("run_command", {"sysctl brand"})
          ELSE IF RunCommand(o2).raised
          THEN Exc("run_command", {"sysctl brand", "sysctl physicalcpu"})
          ELSE IF RunCommand(o3).raised
          THEN Exc("run_command", {"sysctl brand", "sysctl physicalcpu",
                                   "sysctl logicalcpu"})
          ELSE Res(CpuMacos(RunCommand(o1).out, RunCommand(o2).out, RunCommand(o3).out),
                   {"sysctl brand", "sysctl physicalcpu", "sysctl logicalcpu"}))
    ELSE IF plat = "windows"
    THEN (IF RunCommand(o1).raised THEN Exc("run_command", {"wmic cpu"})
          ELSE Res(CpuWindows(RunCommand(o1).out), {"wmic cpu"}))
    ELSE Res(CpuDefault, {})

\* Lines 109-134
ScanMemory(plat, o) ==
    IF plat = "linux"
    THEN (IF RunCommand(o).raised THEN Exc("run_command", {"cat /proc/meminfo"})
          ELSE IF MemLinux(RunCommand(o).out).raised
          THEN Exc("scan_memory", {"cat /proc/meminfo"})
          ELSE Res(MemLinux(RunCommand(o).out).val, {"cat /proc/meminfo"}))
    ELSE IF plat = "macos"
    THEN (IF RunCommand(o).raised THEN Exc("run_command", {"sysctl memsize"})
          ELSE IF MemMacos(RunCommand(o).out).raised
          THEN Exc("scan_memory", {"sysctl memsize"})
          ELSE Res(MemMacos(RunCommand(o).out).val, {"sysctl memsize"}))
    ELSE IF plat = "windows"
    THEN (IF RunCommand(o).raised THEN Exc("run_command", {"wmic computersystem"})
          ELSE Res(MemWindows(RunCommand(o).out), {"wmic computersystem"}))
    ELSE Res(MemDefault, {})

\* Lines 245-287; on macOS  diskutil list -plist  (o1) runs before  diskutil list  (o2).
ScanStorage(plat, o1, o2) ==
    IF plat = "linux"
    THEN (IF RunCommand(o1).raised THEN Exc("run_command", {"lsblk"})
          ELSE Res(StorageLinux(RunCommand(o1).out), {"lsblk"}))
    ELSE IF plat = "macos"
    THEN (IF RunCommand(o1).raised THEN Exc("run_command", {"diskutil list -plist"})
          ELSE IF RunCommand(o2).raised
          THEN Exc("run_command", {"diskutil list -plist", "diskutil list"})
          ELSE Res(StorageMacos(RunCommand(o2).out),
                   {"diskutil list -plist", "diskutil list"}))
    ELSE IF plat = "windows"
    THEN (IF RunCommand(o1).raised THEN Exc("run_command", {"wmic diskdrive"})
          ELSE Res(StorageWindows(CsvRows(RunCommand(o1).out)), {"wmic diskdrive"}))
    ELSE Res(<<>>, {})

\* Lines 353-379: no command is run.
ScanSsh(dir) ==
    IF ScanSshKeys(dir).raised THEN Exc("scan_ssh_keys", {})
    ELSE Res(ScanSshKeys(dir).val, {})


(***************************************************************************)
(* What the probes of the model can print.                                 *)
(***************************************************************************)
\* A probe that produced nothing: it ended with an error status, was not found, or
\* timed out.
Failures == {Outcome("nonzero", <<>>), Outcome("notfound", <<>>), Outcome("timeout", <<>>)}
\* The executable exists and may not be run.
Denied == Outcome("permission", <<>>)
Printed(outs) == {Outcome("ok", o) : o \in outs}

LscpuOutputs ==
    { <<<<"Architecture", "x86_64">>, <<"CPU(s)", "8">>, <<"Model name", "Xeon">>,
        <<"Core(s) per socket", "4">>, <<"Socket(s)", "1">>>>,
      <<<<"Model name", "Xeon">>, <<"CPU(s)", "eight">>>> }
SysctlOutputs == { <<<<"8">>>>, <<<<"M1">>>> }
WmicCpuOutputs ==
    { <<<<"Node", "Name", "NumberOfCores", "NumberOfLogicalProcessors">>,
        <<"PC", "Xeon", "4", "8">>>>,
      <<<<"PC", "Xeon", "four">>>> }
MeminfoOutputs ==
    { <<<<"MemTotal:", "16384000", "kB">>, <<"MemFree:", "8", "kB">>>>,
      <<<<"MemFree:", "8", "kB">>, <<"MemTotal:", "1572864", "kB">>>>,
      <<<<"MemTotal:">>>>,
      <<<<"MemTotal:16384000", "kB">>>> }
MemsizeOutputs == { <<<<"1073741824">>>>, <<<<"sysctl:", "unknown", "oid">>>> }
WmicMemOutputs ==
    { <<<<"Node", "TotalPhysicalMemory">>, <<"PC", "1073741824">>>>,
      <<<<"PC", "unknown">>>> }

NvidiaOutputs ==
    { <<<<"0", Chars_RTX, "8", "00000000:01:00.0", "GPU-1">>>>,
      <<<<"0", Chars_RTX, "8", "00000000:01:00.0", "GPU-1">>,
        <<"1", Chars_RTX, "[N/A]", "00000000:02:00.0", "GPU-2">>>>,
      <<<<"No devices were found">>>>,
      <<<<"Unable", Chars_RTX, "to", "determine", "the", "device">>>> }
Card(num, isDict, hasSeries, series, vram) ==
    [id |-> "card", num |-> num, isDict |-> isDict, hasSeries |-> hasSeries,
     series |-> series, vram |-> vram]
RocmOutputs ==
    { <<[shape |-> "dict", cards |-> <<Card("0", TRUE, TRUE, Chars_RX5, "1073741824")>>]>>,
      <<[shape |-> "dict", cards |-> <<Card("0", TRUE, FALSE, <<>>, "0"),
                                       Card("1", TRUE, TRUE, Chars_RX, "unknown")>>]>>,
      <<[shape |-> "dict", cards |-> <<Card("0", FALSE, FALSE, <<>>, "0")>>]>>,
      <<[shape |-> "dict", cards |-> <<Card("1", TRUE, TRUE, Chars_RX, "1073741824")>>]>>,
      <<[shape |-> "invalid", cards |-> <<>>]>>,
      <<[shape |-> "list", cards |-> <<>>]>> }
Pci(vga, amd, intel, match, model) ==
    [vga |-> vga, amd |-> amd, intel |-> intel, match |-> match, model |-> model]
LspciOutputs ==
    { <<Pci(FALSE, FALSE, TRUE, TRUE, Chars_UHD), Pci(TRUE, TRUE, FALSE, TRUE, Chars_RX5),
        Pci(TRUE, TRUE, FALSE, TRUE, Chars_RX)>>,
      <<Pci(TRUE, TRUE, FALSE, TRUE, Chars_RX), Pci(TRUE, TRUE, FALSE, TRUE, Chars_RX5)>>,
      <<Pci(TRUE, FALSE, TRUE, TRUE, Chars_UHD), Pci(TRUE, FALSE, TRUE, TRUE, Chars_UHD)>>,
      <<Pci(TRUE, TRUE, FALSE, FALSE, <<>>), Pci(TRUE, FALSE, FALSE, TRUE, Chars_RTX)>> }
Display(vendor, apple, model, vram) ==
    [vendor |-> vendor, apple |-> apple, model |-> model, vram |-> vram]
ProfilerOutputs ==
    { <<[shape |-> "dict", displays |-> <<Display("sppci_vendor_Apple", TRUE, Chars_M1, "")>>]>>,
      <<[shape |-> "dict", displays |-> <<Display("Intel", FALSE, Chars_UHD, "1536 MB"),
                                          Display("AMD", FALSE, Chars_RX5, "4 GB"),
                                          Display("Unknown", FALSE, UnknownModel, "shared MB")>>]>>,
      <<[shape |-> "invalid", displays |-> <<>>]>>,
      <<[shape |-> "list", displays |-> <<>>]>> }
Row(parts, hint) == [parts |-> parts, hint |-> hint]
WmicGpuOutputs ==
    { <<Row(<<"Node", "AdapterRAM", "Name">>, ""),
        Row(<<"PC", "1073741824", Chars_RTX>>, "nvidia"),
        Row(<<"PC", "", Chars_UHD>>, "intel")>>,
      <<Row(<<"PC", "unknown">>, ""), Row(<<"PC", "0", Chars_RX>>, "radeon")>> }

LsblkOutputs ==
    { <<<<"sda", "1T", "disk", "Samsung", "SSD">>, <<"sr0", "1G", "rom">>,
        <<"nvme0n1", "2T", "disk">>>>,
      <<<<"lsblk:", "failed">>>> }
Disk(fields, physical) == [fields |-> fields, physical |-> physical]
DiskutilOutputs ==
    { <<Disk(<<"/dev/disk0", "(internal,", "physical):">>, TRUE),
        Disk(<<"/dev/disk1:", "(synthesized):">>, FALSE),
        Disk(<<"/dev/disk1:", "(external,", "PHYSICAL)">>, TRUE)>> }
WmicDiskOutputs ==
    { <<<<"Node", "Model", "Size">>, <<"PC", "Samsung", "1073741824">>,
        <<"PC", "Unknown", "big">>>> }

IpOutputs ==
    { <<<<"1:", "lo", "inet", "127.0.0.1/8", "scope", "host">>,
        <<"2:", "eth0", "inet", "10.0.0.1/24">>,
        <<"2:", "eth0", "inet6", "fe80::1/64">>>>,
      <<<<"3:", "wg0", "inet6", "fe80::1/64">>, <<"Device", "not", "found">>>> }
IfLine(head, name, inet, inet6, fields) ==
    [head |-> head, name |-> name, inet |-> inet, inet6 |-> inet6, fields |-> fields]
IfconfigOutputs ==
    { <<IfLine(TRUE, "en0", FALSE, FALSE, <<"en0:", "flags=8863">>),
        IfLine(FALSE, "", TRUE, FALSE, <<"inet", "10.0.0.1", "netmask", "0xffffff00">>),
        IfLine(FALSE, "", FALSE, TRUE, <<"inet6", "fe80::1%en0", "prefixlen", "64">>),
        IfLine(TRUE, "awdl0", FALSE, FALSE, <<"awdl0:", "flags=8943">>),
        IfLine(FALSE, "", FALSE, FALSE, <<"status:", "inactive">>)>>,
      <<IfLine(FALSE, "", TRUE, FALSE, <<"inet", "10.0.0.1">>),
        IfLine(TRUE, "en1", FALSE, FALSE, <<"en1:", "flags=8863">>),
        IfLine(FALSE, "", TRUE, FALSE, <<"inet">>)>>,
      <<IfLine(TRUE, "utun0", FALSE, FALSE, <<"utun0:", "flags=8051">>),
        IfLine(FALSE, "", TRUE, FALSE, <<"peer-inet", "10.0.0.1">>)>> }
IpLine(adapter, ipv4, ipv6, parts) ==
    [adapter |-> adapter, ipv4 |-> ipv4, ipv6 |-> ipv6, parts |-> parts]
IpconfigOutputs ==
    { <<IpLine(TRUE, FALSE, FALSE, <<"Ethernet adapter Ethernet", "">>),
        IpLine(FALSE, FALSE, TRUE, <<"Link-local IPv6 Address", "fe80", "", "1">>),
        IpLine(FALSE, TRUE, FALSE, <<"IPv4 Address", "10.0.0.1">>),
        IpLine(TRUE, FALSE, FALSE, <<"Wireless LAN adapter Wi-Fi", "">>),
        IpLine(FALSE, FALSE, TRUE, <<"Link-local IPv6 Address", "fe80", "", "1">>)>>,
      <<IpLine(FALSE, TRUE, FALSE, <<"IPv4 Address", "10.0.0.1">>),
        IpLine(TRUE, FALSE, FALSE, <<"Ethernet adapter Ethernet", "">>),
        IpLine(FALSE, TRUE, FALSE, <<"Autoconfiguration IPv4 Address">>)>>,
      <<IpLine(TRUE, FALSE, FALSE, <<"Ethernet adapter Ethernet", "">>),
        IpLine(FALSE, TRUE, FALSE, <<"IPv4 Address", "">>)>> }

Pub(stem, has_private, readable, words) ==
    [stem |-> stem, has_private |-> has_private, readable |-> readable, words |-> words]
SshDirs ==
    { [exists |-> FALSE, pubs |-> <<>>],
      [exists |-> TRUE, pubs |-> <<>>],
      [exists |-> TRUE, pubs |-> <<Pub("id_ed25519", TRUE, TRUE, <<"ssh-ed25519", "AAAA", "me">>),
                                   Pub("backup", FALSE, TRUE, <<"ecdsa-sha2-nistp256", "AAAA">>)>>],
      [exists |-> TRUE, pubs |-> <<Pub("id_rsa", TRUE, FALSE, <<>>)>>] }

\* The outcomes a probe can have: what it may print, nothing, or no permission.
Outcomes(outs) == Printed(outs) \cup Failures \cup {Denied}
\* shutil.which(tool) and, when the tool is found, the outcome of running it.
Tools(outs) ==
    {[which |-> FALSE, outcome |-> NoProbe]}
    \cup {[which |-> TRUE, outcome |-> o] : o \in Outcomes(outs)}

CpuOutputs(plat) ==
    IF plat = "linux" THEN LscpuOutputs
    ELSE IF plat = "macos" THEN SysctlOutputs
    ELSE WmicCpuOutputs
MemOutputs(plat) ==
    IF plat = "linux" THEN MeminfoOutputs
    ELSE IF plat = "macos" THEN MemsizeOutputs
    ELSE WmicMemOutputs
StorageOutputs(plat) ==
    IF plat = "linux" THEN LsblkOutputs
    ELSE IF plat = "macos" THEN DiskutilOutputs
    ELSE WmicDiskOutputs
NetOutputs(plat) ==
    IF plat = "linux" THEN IpOutputs
    ELSE IF plat = "macos" THEN IfconfigOutputs
    ELSE IpconfigOutputs

(***************************************************************************)
(* SystemScanner: the constructor and scan_all, lines 44-60.  The entries  *)
(* of the dict literal are evaluated in order; an exception in one of them *)
(* leaves scan_all and no dict is made.                                    *)
(***************************************************************************)
Categories == {"platform", "hostname", "cpu", "memory", "gpus", "storage", "network",
               "ssh_keys"}

\* Lines 44-46: SystemScanner()
Construct(system) ==
    /\ scanPc = "new"
    /\ platform' = GetPlatform(system)
    /\ scanPc' = "idle"
    /\ UNCHANGED <<data, probed, raisedBy, host>>

\* Lines 51-52: the first two entries.
ScanAllBegin ==
    /\ scanPc = "idle"
    /\ data' = ("platform" :> platform) @@ ("hostname" :> "host")
    /\ scanPc' = "cpu"
    /\ UNCHANGED <<platform, probed, raisedBy, host>>

\* One entry of the dict literal: the extractor's value is added, or its exception
\* leaves scan_all.
Collect(category, r, next) ==
    /\ probed' = probed \cup r.probes
    /\ UNCHANGED <<platform, host>>
    /\ IF r.raised
       THEN /\ scanPc' = "raised"
            /\ raisedBy' = r.why
            /\ data' = <<>>
       ELSE /\ scanPc' = next
            /\ raisedBy' = raisedBy
            /\ data' = data @@ (category :> r.val)

\* Line 53
CollectCpu ==
    /\ scanPc = "cpu"
    /\ \E o1 \in Outcomes(CpuOutputs(platform)), o2, o3 \in Outcomes(SysctlOutputs) :
          Collect("cpu", ScanCpu(platform, o1, o2, o3), "memory")

\* Line 54
CollectMemory ==
    /\ scanPc = "memory"
    /\ \E o \in Outcomes(MemOutputs(platform)) :
          Collect("memory", ScanMemory(platform, o), "gpus")

\* Line 55
CollectGpus ==
    /\ scanPc = "gpus"
    /\ \E nv \in Tools(NvidiaOutputs), rocm \in Tools(RocmOutputs),
          lspci \in Outcomes(LspciOutputs), sp \in Outcomes(ProfilerOutputs),
          wmic \in Outcomes(WmicGpuOutputs) :
          Collect("gpus", ScanGpus(platform, nv, rocm, lspci, sp, wmic), "storage")

\* Line 56
CollectStorage ==
    /\ scanPc = "storage"
    /\ \E o1 \in Outcomes(StorageOutputs(platform)), o2 \in Outcomes(DiskutilOutputs) :
          Collect("storage", ScanStorage(platform, o1, o2), "network")

\* Line 57
CollectNetwork ==
    /\ scanPc = "network"
    /\ \E o \in Outcomes(NetOutputs(platform)) :
          Collect("network", ScanNetwork(platform, o), "ssh_keys")

\* Line 58
CollectSshKeys ==
    /\ scanPc = "ssh_keys"
    /\ \E dir \in SshDirs :
          Collect("ssh_keys", ScanSsh(dir), "done")

UpdateIdle ==
    /\ store = Absent
    /\ log = Absent
    /\ logDir = FALSE
    /\ pc = "idle"
    /\ op = "none"
    /\ runs = 0
    /\ stdin = <<>>
    /\ new_json = NoDoc
    /\ diff_lines = <<>>
    /\ changelog_entry = <<>>
    /\ exitCode = -1
    /\ stdout = <<>>
    /\ stderr = <<>>
    /\ preStore = Absent
    /\ preLog = Absent
    /\ storeWrites = 0

InitScan ==
    /\ platform = ""
    /\ scanPc = "new"
    /\ data = <<>>
    /\ probed = {}
    /\ raisedBy = ""
    /\ host = <<>>
    /\ UpdateIdle
    /\ RunIdle

NextScan ==
    \/ /\ \E system \in Systems : Construct(system)
       /\ UNCHANGED <<updVars, runVars>>
    \/ /\ ScanAllBegin
       /\ UNCHANGED <<updVars, runVars>>
    \/ /\ CollectCpu
       /\ UNCHANGED <<updVars, runVars>>
    \/ /\ CollectMemory
       /\ UNCHANGED <<updVars, runVars>>
    \/ /\ CollectGpus
       /\ UNCHANGED <<updVars, runVars>>
    \/ /\ CollectStorage
       /\ UNCHANGED <<updVars, runVars>>
    \/ /\ CollectNetwork
       /\ UNCHANGED <<updVars, runVars>>
    \/ /\ CollectSshKeys
       /\ UNCHANGED <<updVars, runVars>>

SpecScan == InitScan /\ [][NextScan]_vars

(***************************************************************************)
(* run_command on its own, lines 18-30: every call the scanner makes, with *)
(* every way subprocess.run can end for it.                                *)
(***************************************************************************)
Command(name, shell, outs) == [name |-> name, shell |-> shell, outs |-> outs]

\* The calls of run_command in scanner.py; shell is the shell= argument.
Commands ==
    { Command("lscpu", FALSE, LscpuOutputs),
      Command("sysctl", FALSE, SysctlOutputs \cup MemsizeOutputs),
      Command("wmic cpu", TRUE, WmicCpuOutputs),
      Command("cat /proc/meminfo", FALSE, MeminfoOutputs),
      Command("wmic computersystem", TRUE, WmicMemOutputs),
      Command("nvidia-smi", FALSE, NvidiaOutputs),
      Command("rocm-smi", FALSE, RocmOutputs),
      Command("lspci", FALSE, LspciOutputs),
      Command("system_profiler", FALSE, ProfilerOutputs),
      Command("wmic videocontroller", TRUE, WmicGpuOutputs),
      Command("lsblk", FALSE, LsblkOutputs),
      Command("diskutil list", FALSE, DiskutilOutputs),
      Command("wmic diskdrive", TRUE, WmicDiskOutputs),
      Command("ip addr", FALSE, IpOutputs),
      Command("ifconfig", FALSE, IfconfigOutputs),
      Command("ipconfig", TRUE, IpconfigOutputs) }

\* The text with a blank line before and after it.
Padded(out) == <<Blank>> \o out \o <<Blank>>

\* What the process of a command may print before it ends.
Prints(c) == {<<>>, <<Blank>>} \cup c.outs \cup {Padded(o) : o \in c.outs}

\* How subprocess.run can end for a command.  Under shell=True it is the shell that
\* is spawned: a missing command is the shell's non-zero status.
Completions(c) ==
    {Outcome("ok", o) : o \in Prints(c)}
    \cup {Outcome("nonzero", o) : o \in Prints(c)}
    \cup {Outcome("timeout", <<>>)}
    \cup (IF c.shell THEN {} ELSE {Outcome("notfound", <<>>), Outcome("permission", <<>>)})

\* run_command(cmd, shell) is called.
Call(c, o) ==
    /\ runPc = "idle"
    /\ runPc' = "called"
    /\ cmd' = [name |-> c.name, shell |-> c.shell]
    /\ completed' = o
    /\ UNCHANGED returned

\* Lines 20-30: the try statement.
Run ==
    /\ runPc = "called"
    /\ runPc' = IF RunCommand(completed).raised THEN "raised" ELSE "returned"
    /\ returned' = RunCommand(completed).out
    /\ UNCHANGED <<cmd, completed>>

InitRun ==
    /\ RunIdle
    /\ ScanIdle
    /\ UpdateIdle

NextRun ==
    \/ /\ \E c \in Commands : \E o \in Completions(c) : Call(c, o)
       /\ UNCHANGED <<updVars, scanVars>>
    \/ /\ Run
       /\ UNCHANGED <<updVars, scanVars>>

SpecRun == InitRun /\ [][NextRun]_vars

(***************************************************************************)
(* scan_gpus on its own, lines 136-243: a scanner is made on some system,  *)
(* scan_gpus is called on a host whose probes behave in some way, and it   *)
(* returns or raises.  host keeps what each probe does, whether it is      *)
(* asked or not.                                                           *)
(***************************************************************************)
Host(nv, rocm, lspci, sp, wmic) ==
    [nv |-> nv, rocm |-> rocm, lspci |-> lspci, sp |-> sp, wmic |-> wmic]

\* The hosts of a platform: lspci exists on Linux, system_profiler on macOS and
\* wmic on Windows; the vendor tools may be installed anywhere.
Hosts(plat) ==
    { Host(nv, rocm, lspci, sp, wmic) :
        nv \in Tools(NvidiaOutputs), rocm \in Tools(RocmOutputs),
        lspci \in (IF plat = "linux" THEN Outcomes(LspciOutputs) ELSE {NoProbe}),
        sp \in (IF plat = "macos" THEN Outcomes(ProfilerOutputs) ELSE {NoProbe}),
        wmic \in (IF plat = "windows" THEN Outcomes(WmicGpuOutputs) ELSE {NoProbe}) }

\* scanner.scan_gpus() is called.
GpusCall(h) ==
    /\ scanPc = "idle"
    /\ scanPc' = "gpus"
    /\ host' = h
    /\ UNCHANGED <<platform, data, probed, raisedBy>>

\* Lines 138-243
GpusRun ==
    /\ scanPc = "gpus"
    /\ Collect("gpus",
               ScanGpus(platform, host.nv, host.rocm, host.lspci, host.sp, host.wmic),
               "done")

NextGpus ==
    \/ /\ \E system \in Systems : Construct(system)
       /\ UNCHANGED <<updVars, runVars>>
    \/ /\ \E h \in Hosts(platform) : GpusCall(h)
       /\ UNCHANGED <<updVars, runVars>>
    \/ /\ GpusRun
       /\ UNCHANGED <<updVars, runVars>>

SpecGpus == InitScan /\ [][NextGpus]_vars


(***************************************************************************)
(* Vocabulary of the properties.                                           *)
(***************************************************************************)
IsPrefix(x, y) == Len(x) <= Len(y) /\ SubSeq(y, 1, Len(x)) = x

\* Same key/value content at every nesting level, whatever the key order.
RECURSIVE SameContent(_, _)
SameContent(x, y) ==
    /\ x.kind = y.kind
    /\ x.atom = y.atom
    /\ Len(x.items) = Len(y.items)
    /\ \A i \in 1..Len(x.items) :
         \E j \in 1..Len(y.items) :
            /\ x.items[i].k = y.items[j].k
            /\ SameContent(x.items[i].v, y.items[j].v)

Rank(k) == CHOOSE i \in 1..Len(KeyOrder) : KeyOrder[i] = k

\* The keys are in sorted order at every nesting level.
RECURSIVE SortedKeys(_)
SortedKeys(x) ==
    /\ \A i \in 1..(Len(x.items) - 1) : Rank(x.items[i].k) < Rank(x.items[i + 1].k)
    /\ \A i \in 1..Len(x.items) : SortedKeys(x.items[i].v)

\* The update entries of a log text: a "# <timestamp>" line of its own.
EntryCount(text) ==
    Cardinality({i \in 1..(Len(text) - 2) :
                   text[i] = "# " /\ text[i + 1] \in Timestamps /\ text[i + 2] = NL})

WellFormed(inp) == Strip(inp) # <<>> /\ Loads(Strip(inp)).ok
InputDoc(inp) == Loads(Strip(inp)).val

Finished == op = "update" /\ pc = "exited" /\ exitCode # 137
Applied == Finished /\ exitCode = 0 /\ stdout # <<>> /\ stdout[1] = "Updated"
NoOp == Finished /\ exitCode = 0 /\ stdout = <<"No changes detected">>

(***************************************************************************)
(* C1: Idempotence.  When an update with document D has ended with status  *)
(* 0 and the next invocation is an update with a document of the same      *)
(* key/value content (in any key order), the second run reports no change  *)
(* and leaves the store and the log as they were; over the two runs there  *)
(* is exactly one log entry and one store write if the first run was a     *)
(* change, and none otherwise.                                             *)
(***************************************************************************)
C1_Resubmission ==
    /\ Finished /\ exitCode = 0
    /\ op' = "update" /\ runs' = runs + 1
    /\ WellFormed(stdin')
    /\ SameContent(InputDoc(stdin), InputDoc(stdin'))

C1_SecondRunChangesNothing ==
    /\ pc' = "exited" /\ exitCode' = 0
    /\ stdout' = <<"No changes detected">>
    /\ store' = store
    /\ log' = log
    /\ LET changed == IF SameContent(OldJson(preStore), InputDoc(stdin)) THEN 0 ELSE 1
       IN /\ EntryCount(log'.text) - EntryCount(preLog.text) = changed
          /\ storeWrites + storeWrites' = changed

C1_Idempotence == [][C1_Resubmission => C1_SecondRunChangesNothing]_vars

\* The first run (at time Now(1)) appended its entry and wrote the store; the second
\* run resubmitted the same content in another key order and changed nothing.
C1_Witness ==
    /\ NoOp
    /\ runs = 2
    /\ \E i \in 1..(Len(log.text) - 2) :
          log.text[i] = "# " /\ log.text[i + 1] = Now(1) /\ log.text[i + 2] = NL
    /\ store.text = Piped(DocAB)
    /\ new_json = DocBA

(***************************************************************************)
(* C2: Log before store.  In every state of an update, a crash between any *)
(* two steps included, a store that differs from the store the update      *)
(* found implies that the log already holds the entry of this update,      *)
(* appended to the log the update found.                                   *)
(***************************************************************************)
C2_LogBeforeStore ==
    (op = "update" /\ store # preStore) =>
        /\ log.exists
        /\ changelog_entry # <<>>
        /\ log.text = preLog.text \o changelog_entry
        /\ EntryCount(log.text) = EntryCount(preLog.text) + 1

\* Killed right after the store was truncated: the entry is in the log.
C2_Witness ==
    /\ op = "update" /\ pc = "exited" /\ exitCode = 137
    /\ preStore.exists /\ preStore.text # <<>>
    /\ store.text = <<>>

(***************************************************************************)
(* C3: Malformed input.  When the payload is empty or does not parse, the  *)
(* update ends with a non-zero status and a diagnostic on the error        *)
(* channel, and the store and the log are what they were before the call.  *)
(***************************************************************************)
C3_MalformedRejected ==
    (op = "update" /\ ~WellFormed(stdin)) =>
        /\ pc = "exited"
        /\ exitCode = 1
        /\ stderr # <<>>
        /\ stdout = <<>>
        /\ store = preStore
        /\ log = preLog
        /\ storeWrites = 0

\* The payload  not json  against an unparsable store and no log.
C3_Witness ==
    /\ op = "update" /\ pc = "exited"
    /\ stdin = <<"not", SP, "json">>
    /\ preStore.exists /\ ~Loads(preStore.text).ok
    /\ ~log.exists

(***************************************************************************)
(* C4: One entry per accepted change.  An update never appends more than   *)
(* one entry.  An update that ran to its end with a well-formed payload    *)
(* appended exactly one entry and reported "Updated" if the canonical      *)
(* texts of the old and new document differ; otherwise it appended         *)
(* nothing, did not write the store and reported "No changes detected";    *)
(* both with status 0.                                                     *)
(***************************************************************************)
C4_OneEntryPerChange ==
    /\ op = "update" =>
         EntryCount(log.text) - EntryCount(preLog.text) \in {0, 1}
    /\ (Finished /\ WellFormed(stdin)) =>
         /\ exitCode = 0
         /\ IF Dumps(OldJson(preStore), TRUE) # Dumps(InputDoc(stdin), TRUE)
            THEN /\ EntryCount(log.text) = EntryCount(preLog.text) + 1
                 /\ IsPrefix(preLog.text, log.text)
                 /\ Applied
            ELSE /\ log = preLog
                 /\ store = preStore
                 /\ storeWrites = 0
                 /\ NoOp

\* Two accepted changes in a row: two entries.
C4_Witness ==
    /\ Applied
    /\ runs = 2
    /\ EntryCount(log.text) = 2

(***************************************************************************)
(* C5: The log is append-only.  Over every step of the update and of the   *)
(* setup, the log before the step is a prefix of the log after it.         *)
(***************************************************************************)
C5_AppendOnly ==
    [][log.exists => (log'.exists /\ IsPrefix(log.text, log'.text))]_vars

(***************************************************************************)
(* C6: Canonicalization invariance.  When the old and the new document     *)
(* have the same key/value content at every nesting level, in whatever key *)
(* order, their canonical texts are equal, the unified diff is empty and   *)
(* the update is a no-op.                                                  *)
(***************************************************************************)
C6_CanonicalizationInvariance ==
    (op = "update" /\ WellFormed(stdin)
       /\ SameContent(OldJson(preStore), InputDoc(stdin))) =>
        /\ Formatted(OldJson(preStore)) = Formatted(InputDoc(stdin))
        /\ diff_lines = <<>>
        /\ NoOp
        /\ store = preStore
        /\ log = preLog

\* The same content with the keys of a nested object in another order.
C6_Witness ==
    /\ NoOp
    /\ OldJson(preStore) = DocNestAB
    /\ new_json = DocNestBA

(***************************************************************************)
(* C7: The text of the store after an accepted update.                     *)
(* As claimed: the store holds the canonical (key-sorted) text.            *)
(***************************************************************************)
C7_StoreIsCanonicalText ==
    Applied => store.text = Formatted(new_json)

(***************************************************************************)
(* C7, amended: after an accepted update the store holds the indent-2      *)
(* serialization of the new document with a trailing newline, the keys in  *)
(* the order of the payload; it parses back to the payload's document, and *)
(* it is the canonical text exactly when the payload's keys are sorted at  *)
(* every level.                                                            *)
(***************************************************************************)
C7_StoreIsInputOrderText ==
    Applied =>
        /\ store.exists
        /\ store.text = Dumps(InputDoc(stdin), FALSE) \o <<NL>>
        /\ Loads(store.text) = [ok |-> TRUE, val |-> InputDoc(stdin)]
        /\ (store.text = Formatted(InputDoc(stdin))) <=> SortedKeys(InputDoc(stdin))

\* A payload whose nested keys are not sorted.
C7_Witness ==
    /\ Applied
    /\ new_json = DocNestBA
    /\ store.text # Formatted(new_json)

(***************************************************************************)
(* C8: Round trip.  After an accepted update the store parses, and its     *)
(* canonical text is the canonical text of the payload's document.         *)
(***************************************************************************)
C8_RoundTrip ==
    Applied =>
        /\ Loads(store.text).ok
        /\ Dumps(Loads(store.text).val, TRUE) \o <<NL>>
             = Dumps(InputDoc(stdin), TRUE) \o <<NL>>

\* An unsorted payload over an unparsable store.
C8_Witness ==
    /\ Applied
    /\ new_json = DocBA
    /\ preStore.exists /\ ~Loads(preStore.text).ok

(***************************************************************************)
(* C9: The summary.                                                        *)
(* As claimed: an absent store with payload {"a":1} reports +1 -0, and    *)
(* the store {"a":1,"b":2} with payload {"a":1} reports +0 -1.             *)
(***************************************************************************)
C9_ScenarioCounts ==
    /\ (Applied /\ ~preStore.exists /\ new_json = DocA) =>
          stdout[2] = "  +1 -0 lines"
    /\ (Applied /\ OldJson(preStore) = DocAB /\ new_json = DocA) =>
          stdout[2] = "  +0 -1 lines"

\* The lines of the diff after the two file headers whose first character is p.
BodyCount(p) == Cardinality({i \in 3..Len(diff_lines) : diff_lines[i][1] = p})

(***************************************************************************)
(* C9, amended: the summary counts the added and the removed lines of the  *)
(* diff after its two file-header lines.  An absent store with payload     *)
(* {"a":1} reports +3 -1 (the line {} goes, three lines come; the store    *)
(* becomes the pretty-printed document and the log gains one entry), and   *)
(* the store {"a":1,"b":2} with payload {"a":1} reports +1 -2.             *)
(***************************************************************************)
C9_SummaryCounts ==
    /\ Applied =>
         /\ Len(diff_lines) >= 3
         /\ diff_lines[1] = FromFileLine
         /\ diff_lines[2] = ToFileLine
         /\ stdout[2] = "  +" \o ToString(BodyCount("+"))
                          \o " -" \o ToString(BodyCount("-")) \o " lines"
    /\ (Applied /\ ~preStore.exists /\ new_json = DocA) =>
         /\ stdout[2] = "  +3 -1 lines"
         /\ store.text = <<"{", NL, SP, SP, Quote("a"), ":", SP, "1", NL, "}", NL>>
         /\ EntryCount(log.text) = EntryCount(preLog.text) + 1
    /\ (Applied /\ OldJson(preStore) = DocAB /\ new_json = DocA) =>
         stdout[2] = "  +1 -2 lines"

\* The second scenario: the member b is removed.
C9_Witness ==
    /\ Applied
    /\ preStore = File(Piped(DocAB))
    /\ new_json = DocA
    /\ stdout[2] = "  +1 -2 lines"

(***************************************************************************)
(* C10: The scan never aborts.  As claimed: whatever the probes do among   *)
(* being missing, timing out, printing nothing and printing text of an     *)
(* unexpected shape, no exception leaves an extractor, so scan_all is      *)
(* never left by one and the snapshot it returns holds all eight           *)
(* categories.  (An exception that run_command itself lets through is not  *)
(* among the outcomes the claim lists, and is not counted here.)           *)
(***************************************************************************)
C10_ScanNeverAborts ==
    /\ raisedBy \in {"", "run_command"}
    /\ scanPc = "done" => DOMAIN data = Categories

(***************************************************************************)
(* C11: run_command never propagates a failure.  As claimed: no exception  *)
(* leaves run_command; when the executable is not found, may not be run,   *)
(* or the run times out, the empty string is returned; and when the        *)
(* process ends with a non-zero status, what it printed is returned,       *)
(* trimmed.                                                                *)
(***************************************************************************)
C11_NeverPropagates ==
    /\ runPc # "raised"
    /\ runPc = "returned" =>
         /\ completed.kind \in {"notfound", "permission", "timeout"} => returned = <<>>
         /\ completed.kind = "nonzero" =>
              /\ \E i \in 0..Len(completed.out) :
                    /\ SubSeq(completed.out, i + 1, i + Len(returned)) = returned
                    /\ i + Len(returned) <= Len(completed.out)
                    /\ \A j \in 1..Len(completed.out) :
                          (j <= i \/ j > i + Len(returned)) => completed.out[j] = Blank
              /\ returned # <<>> => (Head(returned) # Blank /\ returned[Len(returned)] # Blank)

(***************************************************************************)
(* C12: GPU uniqueness after merge.  As claimed: the list scan_gpus        *)
(* returns never holds two records with the same vendor and the same       *)
(* model.                                                                  *)
(***************************************************************************)
C12_GpuUniqueness ==
    "gpus" \in DOMAIN data =>
        \A i, j \in 1..Len(data["gpus"]) :
            (data["gpus"][i].vendor = data["gpus"][j].vendor
               /\ data["gpus"][i].model = data["gpus"][j].model) => i = j

\* One string is contained in the other.
Overlap(x, y) == IsInfix(x, y) \/ IsInfix(y, x)

\* A record that came from a vendor tool carries no provenance tag.
HasSource(g) == "source" \in DOMAIN g

\* The lines lspci prints on the host, whether scan_gpus asks for them or not.
BusLines == IF host = <<>> \/ RunCommand(host.lspci).raised THEN <<>>
            ELSE RunCommand(host.lspci).out

\* The fallback record a bus line stands for: its vendor ("" when it is none of a
\* display controller of AMD or Intel) and its model.
BusVendor(l) == IF ~l.vga THEN "" ELSE IF l.amd THEN "AMD" ELSE IF l.intel THEN "Intel" ELSE ""
BusModel(l) == IF l.match THEN l.model ELSE IF l.amd THEN AmdGpu ELSE IntelGpu

(***************************************************************************)
(* C13: GPU merge precedence.  When scan_gpus has returned, for every      *)
(* record of the list that came from a vendor tool and every line of the   *)
(* host's bus listing that stands for a record of the same vendor with an  *)
(* overlapping model (either string contained in the other): the vendor    *)
(* tool's record is in the list without a provenance tag, and the list     *)
(* holds no lspci-tagged record of that vendor and that line's model; so   *)
(* the two are one entry, the vendor tool's.                               *)
(***************************************************************************)
C13_GpuMergePrecedence ==
    (scanPc = "done" /\ "gpus" \in DOMAIN data) =>
        \A i \in 1..Len(data["gpus"]) : \A k \in 1..Len(BusLines) :
            (/\ ~HasSource(data["gpus"][i])
             /\ BusVendor(BusLines[k]) = data["gpus"][i].vendor
             /\ Overlap(BusModel(BusLines[k]), data["gpus"][i].model))
            => ~\E j \in 1..Len(data["gpus"]) :
                  /\ HasSource(data["gpus"][j])
                  /\ data["gpus"][j].vendor = data["gpus"][i].vendor
                  /\ data["gpus"][j].model = BusModel(BusLines[k])

\* rocm-smi reported an RX card, the bus listing names an RX5 and an RX: the list is
\* the one record of rocm-smi.
C13_Witness ==
    /\ scanPc = "done"
    /\ platform = "linux"
    /\ "gpus" \in DOMAIN data
    /\ Len(data["gpus"]) = 1
    /\ data["gpus"][1].vendor = "AMD"
    /\ data["gpus"][1].model = Chars_RX
    /\ ~HasSource(data["gpus"][1])
    /\ \E k \in 1..Len(BusLines) :
          BusVendor(BusLines[k]) = "AMD" /\ BusModel(BusLines[k]) = Chars_RX5

(***************************************************************************)
(* C14: Unmatched platform.  As claimed: on a platform that is none of     *)
(* linux, macos and windows no extractor runs any probe, and every         *)
(* category collected is its neutral default: cpu {Unknown, 0, 0}, memory  *)
(* total_gb 0, and gpus, storage and the network interfaces empty.         *)
(***************************************************************************)
C14_UnmatchedPlatformDefaults ==
    (scanPc # "new" /\ platform \notin {"linux", "macos", "windows"}) =>
        /\ probed = {}
        /\ scanPc # "raised"
        /\ "cpu" \in DOMAIN data => data["cpu"] = CpuDefault
        /\ "memory" \in DOMAIN data => data["memory"] = MemDefault
        /\ "gpus" \in DOMAIN data => data["gpus"] = <<>>
        /\ "storage" \in DOMAIN data => data["storage"] = <<>>
        /\ "network" \in DOMAIN data => data["network"].interfaces = <<>>

(***************************************************************************)
(* C15: Network retention.  On every platform and for every output of the  *)
(* probe, each interface of the list scan_network returns has a non-empty  *)
(* ipv4 list or a non-empty ipv6 list.                                     *)
(***************************************************************************)
C15_NetworkRetention ==
    "network" \in DOMAIN data =>
        \A i \in 1..Len(data["network"].interfaces) :
            \/ data["network"].interfaces[i].ipv4 # <<>>
            \/ data["network"].interfaces[i].ipv6 # <<>>

\* ifconfig listed en0 with two addresses and awdl0 with none: only en0 is returned.
C15_Witness ==
    /\ platform = "macos"
    /\ "ifconfig" \in probed
    /\ "network" \in DOMAIN data
    /\ data["network"].interfaces
         = <<[name |-> "en0", ipv4 |-> <<"10.0.0.1">>, ipv6 |-> <<"fe80::1">>]>>

(***************************************************************************)
(* C16: The store after a successful update.  As claimed: whenever an      *)
(* update with a well-formed payload has ended with status 0, applied or   *)
(* no-op, the store exists, parses, and its canonical text is the          *)
(* canonical text of the payload's document, whatever the store was        *)
(* before (absent, valid or unparsable).                                   *)
(***************************************************************************)
C16_StoreMatchesInput ==
    (Finished /\ exitCode = 0 /\ WellFormed(stdin)) =>
        /\ store.exists
        /\ Loads(store.text).ok
        /\ Dumps(Loads(store.text).val, TRUE) = Dumps(InputDoc(stdin), TRUE)

====
